---- MODULE Spec2Model ----
(***************************************************************************)
(* A model of the MyFitnessPaw ETL pipeline: the SQLite store declared in  *)
(* myfitnesspaw/sql.py, the SQLiteExecuteMany task and the pure tasks of   *)
(* myfitnesspaw/tasks.py, and the task graphs of flows.get_etl_flow and of *)
(* the module-level flow of myfitnesspaw/etl_flow.py.                      *)
(***************************************************************************)
EXTENDS Integers, Sequences, FiniteSets, Bags, TLC

(***************************************************************************)
(* Bounds of the model.                                                    *)
(***************************************************************************)
\* The extracted date range is 1..MaxDate.
MaxDate == 2
\* How many database errors (sqlite3.DatabaseError other than a constraint
\* violation: a locked or unwritable file) the environment injects in a behaviour.
MaxDbErrors == 1

\* The remote requests that fail in the specification of the module-level flow.
MaxRemoteFailures == 2

\* The longest batch and the number of calls in the specification of direct
\* SQLiteExecuteMany.run calls.
MaxBatch == 2
MaxCalls == 3

\* @task(timeout=15, max_retries=5, ...) of get_myfitnesspal_day
max_retries == 5

\* max_retries of get_myfitnesspal_day and get_myfitnesspal_measure in the
\* module-level flow of etl_flow.py.
module_max_retries == 10

Dates == 1..MaxDate

\* SQL NULL / Python None, as a column value.
Null == "NULL"
\* The account the flow was built for (the usermail secret).
USER == "user@mail"

(***************************************************************************)
(* What the remote source can hold for one date: the attributes of         *)
(* MaterializedDay other than username and date, with in measurements the  *)
(* value the source holds for each measure it has data for.                *)
(***************************************************************************)
\* A Python dict is the sequence of its (key, value) items in insertion order.
\* dict.get(key, None)
Get(dict, key) ==
    IF \E i \in DOMAIN dict : dict[i][1] = key
    THEN dict[CHOOSE i \in DOMAIN dict : dict[i][1] = key][2]
    ELSE Null

\* Python None where an object is expected (an element of day.meals).
None == [py_object |-> "None"]

Entry(short_name, cal) ==
    [short_name |-> short_name, quantity |-> "1", unit |-> "g",
     totals |-> << <<"calories", cal>> >>]

MealOf(name, cal, entries) ==
    [name |-> name, totals |-> << <<"calories", cal>> >>, entries |-> entries]

Exercise(name, info) == [name |-> name, nutrition_information |-> info]

DayContents ==
    { [notes |-> << <<"type", "food">>, <<"body", "noted">> >>,
       water |-> "1500",
       goals |-> << <<"calories", "2000">>, <<"fat", "70">> >>,
       meals |-> << MealOf("breakfast", "300", << Entry("egg", "300") >>) >>,
       exercises |-> << << Exercise("run", << <<"minutes", "30">> >>),
                           Exercise("run", << <<"minutes", "30">> >>) >>,
                        << >> >>,
       measurements |-> << <<"Weight", "80">>, <<"Mood", "5">> >>],
      [notes |-> << <<"type", "food">>, <<"body", "">> >>,
       water |-> "0",
       goals |-> << <<"calories", "1800">> >>,
       meals |-> << None,
                    MealOf("breakfast", "0", << >>),
                    MealOf("lunch", "700", << Entry("rice", "400"), Entry("rice", "400") >>) >>,
       exercises |-> << << >>, << Exercise("squat", << <<"sets", "3">> >>) >> >>,
       measurements |-> << >>] }

\* default=["Weight"] of the measures parameter.
measures == << "Weight" >>

\* dict[key] = value: the value of an existing key is replaced in place, a new
\* key is added at the end.
DictSet(dict, key, value) ==
    IF \E i \in DOMAIN dict : dict[i][1] = key
    THEN [ i \in DOMAIN dict |-> IF dict[i][1] = key THEN << key, value >> ELSE dict[i] ]
    ELSE Append(dict, << key, value >>)

\* The truth value of a measurement value: None and the number 0 are false (a
\* number is written as its text).
ValueTruth(value) == value \notin {Null, "0"}

\* self._client.get_measurements(measure, date, date), where held is what the
\* remote source holds for the date, as the items (measure, value): the client
\* raises ValueError for a measure it finds no data for, and else returns the
\* dict of the dates of the range that have a value.
client_get_measurements(held, measure, date) ==
    IF ~\E i \in DOMAIN held : held[i][1] = measure
    THEN [raised |-> "ValueError", response |-> << >>]
    ELSE [raised |-> "",
          response |-> IF Get(held, measure) = Null THEN << >>
                       ELSE << << date, Get(held, measure) >> >>]

\* _get_measurements that gives up at the first measure without data.
RECURSIVE _get_measurements_until_missing(_, _, _, _)
_get_measurements_until_missing(held, date, measure_list, measurements) ==
    IF measure_list = << >> THEN measurements
    ELSE LET measure == Head(measure_list)
             r == client_get_measurements(held, measure, date)
             measurement_value == IF \E i \in DOMAIN r.response : r.response[i][1] = date
                                  THEN r.response[1][2] ELSE Null
         IN IF r.raised = "ValueError" THEN measurements
            ELSE _get_measurements_until_missing(held, date, Tail(measure_list),
                     IF ValueTruth(measurement_value)
                     THEN DictSet(measurements, measure, measurement_value)
                     ELSE measurements)

\* MyfitnesspalClientAdapter._get_measurements: the loop over measures, from the
\* measurements collected so far.
RECURSIVE _get_measurements(_, _, _, _)
_get_measurements(held, date, measure_list, measurements) ==
    IF measure_list = << >> THEN measurements
    ELSE LET measure == Head(measure_list)
             r == client_get_measurements(held, measure, date)
             measurement_value == IF \E i \in DOMAIN r.response : r.response[i][1] = date
                                  THEN r.response[1][2] ELSE Null
         IN _get_measurements(held, date, Tail(measure_list),
                IF r.raised # "ValueError" /\ ValueTruth(measurement_value)
                THEN DictSet(measurements, measure, measurement_value)
                ELSE measurements)

\* MyfitnesspalClientAdapter.get_myfitnesspaw_day: the MaterializedDay built from
\* what the client returns for the date (c).
get_myfitnesspaw_day(username, date, measure_list, c) ==
    [username |-> username, date |-> date, meals |-> c.meals,
     exercises |-> c.exercises, goals |-> c.goals, notes |-> c.notes,
     water |-> c.water,
     measurements |-> _get_measurements(c.measurements, date, measure_list, << >>)]

\* jsonpickle.encode(day): the text that names the class and carries every
\* attribute of the object; jsonpickle.decode rebuilds the object from it.
jsonpickle_encode(day) == [py_object |-> "myfitnesspaw._utils.MaterializedDay", json |-> day]
jsonpickle_decode(text) == text.json


(***************************************************************************)
(* The database: the nine tables of sql.py.  A table with a declared       *)
(* primary key is a set of rows; a table with an AUTOINCREMENT id is the   *)
(* bag of its rows without the id (a function from row to number of        *)
(* copies).  A row is the tuple of the values of the columns its insert    *)
(* statement names, in that order.                                         *)
(***************************************************************************)
TableNames ==
    {"RawDayData", "Notes", "Water", "Goals", "Meals", "MealEntries",
     "CardioExercises", "StrengthExercises", "Measurements"}

IdTables == {"MealEntries", "CardioExercises", "StrengthExercises"}

\* The tables whose foreign key references RawDayData(userid, date).
RawDayChildren ==
    {"Notes", "Water", "Goals", "Meals", "CardioExercises", "StrengthExercises",
     "Measurements"}

\* A new database file: no table exists yet (tables is the set of created tables).
EmptyDb ==
    [tables |-> {},
     RawDayData |-> {}, Notes |-> {}, Water |-> {}, Goals |-> {}, Meals |-> {},
     MealEntries |-> EmptyBag, CardioExercises |-> EmptyBag,
     StrengthExercises |-> EmptyBag, Measurements |-> {}]

Key2(r) == << r[1], r[2] >>
Key3(r) == << r[1], r[2], r[3] >>

Range(s) == { s[i] : i \in DOMAIN s }

\* The rows of table t as a set, whatever its representation.
Rows(d, t) == IF t \in IdTables THEN DOMAIN d[t] ELSE d[t]

\* The columns of an inserted row that are declared NOT NULL.
NotNullCols(t) ==
    CASE t = "RawDayData" -> {1, 2}
      [] t = "Goals" -> {1, 2}
      [] t = "MealEntries" -> 1..6
      [] t = "Measurements" -> 1..4
      [] OTHER -> {1, 2, 3}

\* The length of the declared primary key (0: an AUTOINCREMENT id).
PkLen(t) ==
    CASE t \in {"RawDayData", "Notes", "Water", "Goals"} -> 2
      [] t \in {"Meals", "Measurements"} -> 3
      [] OTHER -> 0

PkOf(t, r) == IF PkLen(t) = 2 THEN Key2(r) ELSE Key3(r)

\* FOREIGN KEY ... REFERENCES: does the parent row of r exist in d?
ParentExists(d, t, r) ==
    CASE t = "RawDayData" -> TRUE
      [] t = "MealEntries" -> \E m \in d.Meals : Key3(m) = Key3(r)
      [] OTHER -> \E p \in d.RawDayData : Key2(p) = Key2(r)

Without(rows, t, Gone(_)) ==
    IF t \in IdTables
    THEN [ r \in { x \in DOMAIN rows : ~Gone(x) } |-> rows[r] ]
    ELSE { r \in rows : ~Gone(r) }

\* A cascade that reaches only the child tables with a declared primary key: the
\* rows of the AUTOINCREMENT tables stay.
CascadeDeleteKeyedOnly(d, k) ==
    LET OfKey(r) == Key2(r) = k
    IN [ t \in DOMAIN d |->
           IF t \in (RawDayChildren \cup {"RawDayData"}) \ IdTables
           THEN Without(d[t], t, OfKey)
           ELSE d[t] ]

\* A cascade of one level only: the children of the RawDayData row go, the
\* MealEntries rows of its Meals rows stay.
CascadeDeleteOneLevel(d, k) ==
    LET OfKey(r) == Key2(r) = k
    IN [ t \in DOMAIN d |->
           IF t = "RawDayData" \/ t \in RawDayChildren THEN Without(d[t], t, OfKey)
           ELSE d[t] ]

\* ON DELETE CASCADE: the database after the RawDayData rows of key k are deleted
\* with foreign keys enforced.  Meals rows go with their RawDayData row and
\* MealEntries rows go with their Meals row.
CascadeDelete(d, k) ==
    LET goneMeals == { Key3(m) : m \in { x \in d.Meals : Key2(x) = k } }
        OfKey(r) == Key2(r) = k
        OfMeal(r) == Key3(r) \in goneMeals
    IN [ t \in DOMAIN d |->
           IF t = "RawDayData" \/ t \in RawDayChildren THEN Without(d[t], t, OfKey)
           ELSE IF t = "MealEntries" THEN Without(d[t], t, OfMeal)
           ELSE d[t] ]

\* The database after the row of table t with primary key pk is deleted.
DeleteRow(d, t, pk, enforce_fk) ==
    LET OfPk(r) == PkOf(t, r) = pk
    IN IF t = "RawDayData" /\ enforce_fk THEN CascadeDelete(d, pk)
       ELSE IF t = "Meals" /\ enforce_fk
       THEN [d EXCEPT !.Meals = Without(@, t, OfPk),
                      !.MealEntries = LET OfMeal(r) == Key3(r) = pk
                                      IN Without(@, "MealEntries", OfMeal)]
       ELSE [d EXCEPT ![t] = Without(@, t, OfPk)]

AddRow(d, t, r) ==
    [d EXCEPT ![t] = IF t \in IdTables THEN @ (+) SetToBag({r}) ELSE @ \cup {r}]

\* sqlite3's default adapter binds a datetime.date parameter as its ISO text; the
\* date columns are declared text.  A date is a day number in the model.
isoformat(date) == ToString(date)

\* The values of a parameter tuple as they are bound to the statement.
Bind(values) == [values EXCEPT ![2] = isoformat(@)]

(***************************************************************************)
(* The statements of sql.py that the loads execute.                        *)
(***************************************************************************)
insert_or_replace_rawdaydata_record == [table |-> "RawDayData", or_replace |-> TRUE]
insert_notes == [table |-> "Notes", or_replace |-> FALSE]
insert_water == [table |-> "Water", or_replace |-> FALSE]
insert_goals == [table |-> "Goals", or_replace |-> FALSE]
insert_meals == [table |-> "Meals", or_replace |-> FALSE]
insert_mealentries == [table |-> "MealEntries", or_replace |-> FALSE]
insert_cardioexercises == [table |-> "CardioExercises", or_replace |-> FALSE]
insert_strengthexercises == [table |-> "StrengthExercises", or_replace |-> FALSE]
insert_measurements == [table |-> "Measurements", or_replace |-> TRUE]

\* "DELETE FROM RawDayData WHERE userid = ? AND date = ?;", the statement the
\* tests of the task class run through it.
delete_rawdaydata == [table |-> "RawDayData", or_replace |-> FALSE, delete |-> TRUE]

IsDelete(query) == "delete" \in DOMAIN query

\* One execution of the DELETE statement: the rows of the key go, and with foreign
\* keys enforced their children with them; no row of the key, no change.
ExecuteDelete(d, query, values, enforce_fk) ==
    LET t == query.table
        k == Key2(Bind(values))
    IN IF \E x \in d[t] : Key2(x) = k THEN DeleteRow(d, t, k, enforce_fk) ELSE d

\* One execution of a statement with the values of row r on a
\* connection with or without "PRAGMA foreign_keys = YES".  A statement that
\* violates a constraint changes nothing.
ExecuteOne(d, query, values, enforce_fk) ==
    LET t == query.table
        r == Bind(values)
        conflict == PkLen(t) > 0 /\ \E x \in d[t] : PkOf(t, x) = PkOf(t, r)
        cleared == IF conflict /\ query.or_replace
                   THEN DeleteRow(d, t, PkOf(t, r), enforce_fk)
                   ELSE d
    IN IF IsDelete(query)
       THEN [ok |-> TRUE, db |-> ExecuteDelete(d, query, values, enforce_fk)]
       ELSE IF \E c \in NotNullCols(t) : r[c] = Null THEN [ok |-> FALSE, db |-> d]
       ELSE IF conflict /\ ~query.or_replace THEN [ok |-> FALSE, db |-> d]
       ELSE IF enforce_fk /\ ~ParentExists(cleared, t, r) THEN [ok |-> FALSE, db |-> d]
       ELSE [ok |-> TRUE, db |-> AddRow(cleared, t, r)]

\* The statement executed with each tuple of data in order; the first failing
\* execution raises.
RECURSIVE ExecuteEach(_, _, _, _)
ExecuteEach(d, query, data, enforce_fk) ==
    IF data = << >> THEN [ok |-> TRUE, db |-> d]
    ELSE LET one == ExecuteOne(d, query, Head(data), enforce_fk)
         IN IF one.ok THEN ExecuteEach(one.db, query, Tail(data), enforce_fk)
            ELSE [ok |-> FALSE, db |-> one.db]

\* cursor.executemany(query, data) inside the connection's open transaction: the
\* statement is prepared first, which raises when its table does not exist, also
\* for an empty batch.  The result is the state of the transaction (not yet of
\* the file).
executemany(d, query, data, enforce_fk) ==
    IF query.table \notin d.tables THEN [ok |-> FALSE, db |-> d]
    ELSE ExecuteEach(d, query, data, enforce_fk)

\* A run that commits what its transaction did before a statement raised.
SQLiteExecuteMany_run_commit_partial(d, query, data, enforce_fk, dberr) ==
    IF dberr THEN [raised |-> TRUE, db |-> d]
    ELSE LET tx == executemany(d, query, data, enforce_fk)
         IN [raised |-> ~tx.ok, db |-> tx.db]

\* SQLiteExecuteMany.run on database d.  dberr: the environment makes connect,
\* execute or commit raise a DatabaseError.  The connection is closed without a
\* commit when anything raises, which rolls its transaction back.
SQLiteExecuteMany_run(d, query, data, enforce_fk, dberr) ==
    IF dberr THEN [raised |-> TRUE, db |-> d]
    ELSE LET tx == executemany(d, query, data, enforce_fk)
         IN IF tx.ok THEN [raised |-> FALSE, db |-> tx.db]
            ELSE [raised |-> TRUE, db |-> d]

\* A script of plain CREATE TABLE statements on a new file: the nine tables, empty.
create_mfp_database_from_scratch(d) == [EmptyDb EXCEPT !.tables = TableNames]

\* create_mfp_database: CREATE TABLE IF NOT EXISTS for each of the nine tables.
create_mfp_database(d) == [d EXCEPT !.tables = @ \cup TableNames]

(***************************************************************************)
(* The pure tasks of tasks.py.                                             *)
(***************************************************************************)
RECURSIVE Concat(_)
Concat(ss) == IF ss = << >> THEN << >> ELSE Head(ss) \o Concat(Tail(ss))

\* generate_dates_to_extract: both ends included (from_date <= to_date is checked
\* by the caller of this operator).
generate_dates_to_extract(from_date, to_date) ==
    [ i \in 1..(to_date - from_date + 1) |-> from_date + (i - 1) ]

serialize_myfitnesspal_days(myfitnesspal_days) ==
    [ i \in DOMAIN myfitnesspal_days |->
        << myfitnesspal_days[i].username, myfitnesspal_days[i].date,
           jsonpickle_encode(myfitnesspal_days[i]) >> ]

\* A select whose date parameter matches the text of no stored row.
mfp_select_no_rows(d, username, dates) ==
    [ i \in DOMAIN dates |-> << username, dates[i], None >> ]

\* mfp_select_raw_days: one (username, date, day_json) per date, day_json None
\* when no row is stored.
mfp_select_raw_days(d, username, dates) ==
    [ i \in DOMAIN dates |->
        LET result == { r \in d.RawDayData :
                          Key2(r) = << username, isoformat(dates[i]) >> }
        IN << username, dates[i],
              IF result # {} THEN (CHOOSE r \in result : TRUE)[3] ELSE None >> ]

\* A change detector that returns only the records stored with another payload.
filter_changed_records_only(extracted_records, local_records) ==
    LET IsChanged(t) == \E i \in DOMAIN local_records :
                            /\ Key2(local_records[i]) = Key2(t)
                            /\ local_records[i][3] \notin {None, t[3]}
    IN SelectSeq(extracted_records, IsChanged)

\* A change detector that returns only the records whose key has no stored payload.
filter_new_records_only(extracted_records, local_records) ==
    LET IsNew(t) == \E i \in DOMAIN local_records :
                        /\ Key2(local_records[i]) = Key2(t)
                        /\ local_records[i][3] = None
    IN SelectSeq(extracted_records, IsNew)

\* A change detector that returns every extracted record.
filter_every_extracted_record(extracted_records, local_records) == extracted_records

\* [t for t in extracted_records if t not in local_records]
filter_new_or_changed_records(extracted_records, local_records) ==
    LET NotLocal(t) == \A i \in DOMAIN local_records : local_records[i] # t
    IN SelectSeq(extracted_records, NotLocal)

deserialize_records_to_process(serialized_days) ==
    [ i \in DOMAIN serialized_days |-> jsonpickle_decode(serialized_days[i][3]) ]

\* A truth value that only None lacks.
TruthyNotNone(meal) == meal # None

\* bool(meal): None is falsy, and so is a Meal without entries (Meal.__len__).
Truthy(meal) == meal # None /\ Len(meal.entries) > 0

\* A note tuple for every day, whatever its body.
extract_notes_every_day(days) ==
    [ i \in DOMAIN days |->
        << days[i].username, days[i].date, Get(days[i].notes, "type"),
           Get(days[i].notes, "body") >> ]

extract_notes(days) ==
    LET HasBody(day) == Get(day.notes, "body") \notin {"", Null}
        Row(day) == << day.username, day.date, Get(day.notes, "type"),
                       Get(day.notes, "body") >>
        kept == SelectSeq(days, HasBody)
    IN [ i \in DOMAIN kept |-> Row(kept[i]) ]

extract_water(days) ==
    [ i \in DOMAIN days |-> << days[i].username, days[i].date, days[i].water >> ]

extract_goals(days) ==
    [ i \in DOMAIN days |->
        << days[i].username, days[i].date,
           Get(days[i].goals, "calories"), Get(days[i].goals, "carbohydrates"),
           Get(days[i].goals, "fat"), Get(days[i].goals, "protein"),
           Get(days[i].goals, "sodium"), Get(days[i].goals, "sugar") >> ]

\* extract_meals: the truthy meals of every day, each given its day's username and
\* date.
extract_meals(days) ==
    LET OfDay(day) ==
            LET kept == SelectSeq(day.meals, Truthy)
            IN [ j \in DOMAIN kept |->
                   [username |-> day.username, date |-> day.date,
                    name |-> kept[j].name, totals |-> kept[j].totals,
                    entries |-> kept[j].entries] ]
    IN Concat([ i \in DOMAIN days |-> OfDay(days[i]) ])

extract_meal_records(meals) ==
    [ i \in DOMAIN meals |->
        << meals[i].username, meals[i].date, meals[i].name,
           Get(meals[i].totals, "calories"), Get(meals[i].totals, "carbohydrates"),
           Get(meals[i].totals, "fat"), Get(meals[i].totals, "protein"),
           Get(meals[i].totals, "sodium"), Get(meals[i].totals, "sugar") >> ]

extract_mealentries(meals) ==
    LET OfMeal(meal) ==
            [ j \in DOMAIN meal.entries |->
                LET entry == meal.entries[j]
                IN << meal.username, meal.date, meal.name, entry.short_name,
                      entry.quantity, entry.unit,
                      Get(entry.totals, "calories"), Get(entry.totals, "carbohydrates"),
                      Get(entry.totals, "fat"), Get(entry.totals, "protein"),
                      Get(entry.totals, "sodium"), Get(entry.totals, "sugar") >> ]
    IN Concat([ i \in DOMAIN meals |-> OfMeal(meals[i]) ])

extract_cardio_exercises(days) ==
    LET OfDay(day) ==
            [ j \in DOMAIN day.exercises[1] |->
                LET record == day.exercises[1][j]
                IN << day.username, day.date, record.name,
                      Get(record.nutrition_information, "minutes"),
                      Get(record.nutrition_information, "calories burned") >> ]
    IN Concat([ i \in DOMAIN days |-> OfDay(days[i]) ])

extract_strength_exercises(days) ==
    LET OfDay(day) ==
            [ j \in DOMAIN day.exercises[2] |->
                LET record == day.exercises[2][j]
                IN << day.username, day.date, record.name,
                      Get(record.nutrition_information, "sets"),
                      Get(record.nutrition_information, "reps/set"),
                      Get(record.nutrition_information, "weight/set") >> ]
    IN Concat([ i \in DOMAIN days |-> OfDay(days[i]) ])

extract_measures(days) ==
    LET OfDay(day) ==
            [ j \in DOMAIN day.measurements |->
                << day.username, day.date, day.measurements[j][1],
                   day.measurements[j][2] >> ]
    IN Concat([ i \in DOMAIN days |-> OfDay(days[i]) ])

(***************************************************************************)
(* The state of a flow run.                                                *)
(***************************************************************************)
VARIABLES
    db,             \* the SQLite database file at DB_PATH
    db_start,       \* the database when the current (or last) flow run started
    remote,         \* what myfitnesspal holds for each date
    flow_state,     \* "Idle" | "Running" | "Success" | "Failed"
    state,          \* the Prefect state of each task of the run
    run_count,      \* how many times each task was executed in the run
    day_state,      \* the state of each mapped child of get_myfitnesspal_day
    day_run_count,  \* the executions of each mapped child not yet successful
    result,         \* the results the tasks of the run returned
    dberrs,         \* faults injected so far: database errors (remote failures in
                    \* the module-level flow)
    last_run,       \* what the previous flow run extracted, if its RawDayData load committed
    call            \* a direct call of SQLiteExecuteMany.run, outside a flow, that
                    \* was the last to touch the database (and the task object,
                    \* where the specification has one)

vars == << db, db_start, remote, flow_state, state, run_count, day_state,
           day_run_count, result, dberrs, last_run, call >>

(***************************************************************************)
(* The task graph of flows.get_etl_flow.  A task is named by the variable   *)
(* that holds it in the flow.  Each decomposer (extract_notes, ...) is a    *)
(* pure function of days_to_process and is evaluated by the load that       *)
(* consumes it.                                                            *)
(***************************************************************************)
ChildLoads ==
    {"notes_load_state", "water_load_state", "goals_load_state", "meals_load_state",
     "mealentries_load_state", "cardio_load_state", "strength_load_state",
     "measurements_load_state"}

LoadTasks == ChildLoads \cup {"rawdays_load_state"}

Tasks ==
    {"dates_to_extract", "db_exists", "extracted_days", "serialized_extracted_days",
     "mfp_existing_days", "serialized_days_to_process", "days_to_process"}
    \cup LoadTasks

\* The graph with the data dependencies only, without the upstream_tasks given
\* to deserialize_records_to_process and to the MealEntries load.
UpstreamDataOnly(t) ==
    CASE t = "dates_to_extract" -> {}
      [] t = "db_exists" -> {}
      [] t = "extracted_days" -> {"dates_to_extract"}
      [] t = "serialized_extracted_days" -> {"extracted_days"}
      [] t = "mfp_existing_days" -> {"dates_to_extract", "db_exists"}
      [] t = "serialized_days_to_process" ->
             {"serialized_extracted_days", "mfp_existing_days"}
      [] t = "rawdays_load_state" -> {"serialized_days_to_process"}
      [] t = "days_to_process" -> {"serialized_days_to_process"}
      [] OTHER -> {"days_to_process"}

\* The graph with the Water load set downstream of the Notes load.
UpstreamWaterAfterNotes(t) ==
    CASE t = "dates_to_extract" -> {}
      [] t = "db_exists" -> {}
      [] t = "extracted_days" -> {"dates_to_extract"}
      [] t = "serialized_extracted_days" -> {"extracted_days"}
      [] t = "mfp_existing_days" -> {"dates_to_extract", "db_exists"}
      [] t = "serialized_days_to_process" ->
             {"serialized_extracted_days", "mfp_existing_days"}
      [] t = "rawdays_load_state" -> {"serialized_days_to_process"}
      [] t = "days_to_process" -> {"serialized_days_to_process", "rawdays_load_state"}
      [] t = "mealentries_load_state" -> {"days_to_process", "meals_load_state"}
      [] t = "water_load_state" -> {"days_to_process", "notes_load_state"}
      [] OTHER -> {"days_to_process"}

\* The upstream tasks of each task: its data dependencies and its upstream_tasks.
Upstream(t) ==
    CASE t = "dates_to_extract" -> {}
      [] t = "db_exists" -> {}
      [] t = "extracted_days" -> {"dates_to_extract"}
      [] t = "serialized_extracted_days" -> {"extracted_days"}
      [] t = "mfp_existing_days" -> {"dates_to_extract", "db_exists"}
      [] t = "serialized_days_to_process" ->
             {"serialized_extracted_days", "mfp_existing_days"}
      [] t = "rawdays_load_state" -> {"serialized_days_to_process"}
      [] t = "days_to_process" -> {"serialized_days_to_process", "rawdays_load_state"}
      [] t = "mealentries_load_state" -> {"days_to_process", "meals_load_state"}
      [] OTHER -> {"days_to_process"}

\* The terminal tasks of the flow (no task is downstream of them); they are its
\* reference tasks, whose states decide the state of the flow run.
TerminalTasks == { t \in Tasks : \A u \in Tasks : t \notin Upstream(u) }

\* A flow whose tasks all carry the retry policy of the extraction.
MaxRetriesEveryTask(t) == max_retries

\* The retry policy of each task: only get_myfitnesspal_day is declared with
\* max_retries; every other task has Prefect's default of none.
MaxRetries(t) == IF t = "extracted_days" THEN max_retries ELSE 0

\* A retry check that allows one retry more than max_retries.
AfterFailureOneMore(t, count) ==
    IF count <= MaxRetries(t) + 1 THEN "Retrying" ELSE "Failed"

\* The state a task run that raised ends in (Prefect's check_for_retry): Retrying
\* while the run count has not passed max_retries, Failed otherwise.
AfterFailure(t, count) == IF count <= MaxRetries(t) THEN "Retrying" ELSE "Failed"

\* mfp_insertmany = tasks.SQLiteExecuteMany(db=DB_PATH, enforce_fk=True)
mfp_insertmany_enforce_fk == TRUE

\* The state of the mapped task: that of its children together.
MappedState ==
    IF \A d \in Dates : day_state[d] = "Success" THEN "Success"
    ELSE IF \E d \in Dates : day_state[d] = "Failed" THEN "Failed"
    ELSE "Pending"

\* The tasks task t depends on, directly or through other tasks.
RECURSIVE UpstreamClosure(_)
UpstreamClosure(t) ==
    Upstream(t) \cup UNION { UpstreamClosure(u) : u \in Upstream(t) }

Ancestors == [ t \in Tasks |-> UpstreamClosure(t) ]

\* The state of a task as its own runs left it.
OwnState(t) == IF t = "extracted_days" THEN MappedState ELSE state[t]

\* The state of task t.  A task whose upstream task did not succeed is never run:
\* its trigger (all_successful) fails, and so does that of the tasks after it.
TaskState(t) ==
    IF OwnState(t) # "Pending" THEN OwnState(t)
    ELSE IF \E a \in Ancestors[t] : OwnState(a) = "Failed" THEN "TriggerFailed"
    ELSE "Pending"

Finished(t) == TaskState(t) \in {"Success", "Failed", "TriggerFailed"}

\* Task t may be executed now.
CanRun(t) ==
    /\ flow_state = "Running"
    /\ state[t] \in {"Pending", "Retrying"}
    /\ \A u \in Upstream(t) : OwnState(u) = "Success"

NoResult ==
    [dates_to_extract |-> << >>, extracted_days |-> [d \in Dates |-> None],
     serialized_extracted_days |-> << >>, mfp_existing_days |-> << >>,
     serialized_days_to_process |-> << >>, days_to_process |-> << >>]

\* The statement and the batch each load is called with.
Query(t) ==
    CASE t = "rawdays_load_state" -> insert_or_replace_rawdaydata_record
      [] t = "notes_load_state" -> insert_notes
      [] t = "water_load_state" -> insert_water
      [] t = "goals_load_state" -> insert_goals
      [] t = "meals_load_state" -> insert_meals
      [] t = "mealentries_load_state" -> insert_mealentries
      [] t = "cardio_load_state" -> insert_cardioexercises
      [] t = "strength_load_state" -> insert_strengthexercises
      [] t = "measurements_load_state" -> insert_measurements

Decompose(t, days) ==
    CASE t = "notes_load_state" -> extract_notes(days)
      [] t = "water_load_state" -> extract_water(days)
      [] t = "goals_load_state" -> extract_goals(days)
      [] t = "meals_load_state" -> extract_meal_records(extract_meals(days))
      [] t = "mealentries_load_state" -> extract_mealentries(extract_meals(days))
      [] t = "cardio_load_state" -> extract_cardio_exercises(days)
      [] t = "strength_load_state" -> extract_strength_exercises(days)
      [] t = "measurements_load_state" -> extract_measures(days)

Batch(t) ==
    IF t = "rawdays_load_state" THEN result.serialized_days_to_process
    ELSE Decompose(t, result.days_to_process)

Succeed(t) ==
    /\ state' = [state EXCEPT ![t] = "Success"]
    /\ run_count' = [run_count EXCEPT ![t] = @ + 1]

\* No previous run has stored what it extracted.
NoRun == [stored |-> FALSE, extracted |-> << >>]

\* SQLiteExecuteMany.run has not been called directly.
NoCall == [called |-> FALSE, n |-> 0]

Init ==
    /\ db = EmptyDb
    /\ db_start = EmptyDb
    /\ remote \in [Dates -> DayContents]
    /\ flow_state = "Idle"
    /\ state = [t \in Tasks |-> "Pending"]
    /\ run_count = [t \in Tasks |-> 0]
    /\ day_state = [d \in Dates |-> "Pending"]
    /\ day_run_count = [d \in Dates |-> 0]
    /\ result = NoResult
    /\ dberrs = 0
    /\ last_run = NoRun
    /\ call = NoCall

\* flow.run(): every task of the new run is Pending.
StartRun ==
    /\ flow_state # "Running"
    /\ flow_state' = "Running"
    /\ db_start' = db
    /\ state' = [t \in Tasks |-> "Pending"]
    /\ run_count' = [t \in Tasks |-> 0]
    /\ day_state' = [d \in Dates |-> "Pending"]
    /\ day_run_count' = [d \in Dates |-> 0]
    /\ result' = NoResult
    /\ UNCHANGED << db, remote, dberrs, last_run, call >>

\* The user edits a day in myfitnesspal between two runs.
RemoteEdit(d, c) ==
    /\ flow_state # "Running"
    /\ remote[d] # c
    /\ remote' = [remote EXCEPT ![d] = c]
    /\ UNCHANGED << db, db_start, flow_state, state, run_count, day_state,
                    day_run_count, result, dberrs, last_run, call >>

GenerateDates ==
    /\ CanRun("dates_to_extract")
    /\ Succeed("dates_to_extract")
    /\ result' = [result EXCEPT !.dates_to_extract = generate_dates_to_extract(1, MaxDate)]
    /\ UNCHANGED << db, db_start, remote, flow_state, day_state, day_run_count,
                    dberrs, last_run, call >>

CreateDb ==
    /\ CanRun("db_exists")
    /\ Succeed("db_exists")
    /\ db' = create_mfp_database(db)
    /\ UNCHANGED << db_start, remote, flow_state, day_state, day_run_count, result,
                    dberrs, last_run, call >>

\* One execution of the mapped child of get_myfitnesspal_day for date d.  ok: the
\* remote source answers within the timeout.
GetDay(d, ok) ==
    /\ CanRun("extracted_days")
    /\ day_state[d] \in {"Pending", "Retrying"}
    /\ IF ok
       THEN /\ day_state' = [day_state EXCEPT ![d] = "Success"]
            /\ day_run_count' = [day_run_count EXCEPT ![d] = 0]
            /\ result' = [result EXCEPT !.extracted_days[d] =
                            get_myfitnesspaw_day(USER, d, measures, remote[d])]
       ELSE /\ day_state' = [day_state EXCEPT ![d] =
                               AfterFailure("extracted_days", day_run_count[d] + 1)]
            /\ day_run_count' = [day_run_count EXCEPT ![d] = @ + 1]
            /\ UNCHANGED result
    /\ UNCHANGED << db, db_start, remote, flow_state, state, run_count, dberrs,
                    last_run, call >>

\* The results of the mapped children in the order of dates_to_extract.
ExtractedDays ==
    [ i \in DOMAIN result.dates_to_extract |->
        result.extracted_days[result.dates_to_extract[i]] ]

SerializeDays ==
    /\ CanRun("serialized_extracted_days")
    /\ Succeed("serialized_extracted_days")
    /\ result' = [result EXCEPT !.serialized_extracted_days =
                    serialize_myfitnesspal_days(ExtractedDays)]
    /\ UNCHANGED << db, db_start, remote, flow_state, day_state, day_run_count,
                    dberrs, last_run, call >>

SelectRawDays ==
    /\ CanRun("mfp_existing_days")
    /\ Succeed("mfp_existing_days")
    /\ result' = [result EXCEPT !.mfp_existing_days =
                    mfp_select_raw_days(db, USER, result.dates_to_extract)]
    /\ UNCHANGED << db, db_start, remote, flow_state, day_state, day_run_count,
                    dberrs, last_run, call >>

FilterRecords ==
    /\ CanRun("serialized_days_to_process")
    /\ Succeed("serialized_days_to_process")
    /\ result' = [result EXCEPT !.serialized_days_to_process =
                    filter_new_or_changed_records(result.serialized_extracted_days,
                                                  result.mfp_existing_days)]
    /\ UNCHANGED << db, db_start, remote, flow_state, day_state, day_run_count,
                    dberrs, last_run, call >>

DeserializeRecords ==
    /\ CanRun("days_to_process")
    /\ Succeed("days_to_process")
    /\ result' = [result EXCEPT !.days_to_process =
                    deserialize_records_to_process(result.serialized_days_to_process)]
    /\ UNCHANGED << db, db_start, remote, flow_state, day_state, day_run_count,
                    dberrs, last_run, call >>

\* One execution of load task t: mfp_insertmany(query=..., data=...).
Load(t, dberr) ==
    /\ CanRun(t)
    /\ dberr => dberrs < MaxDbErrors
    /\ LET r == SQLiteExecuteMany_run(db, Query(t), Batch(t),
                                      mfp_insertmany_enforce_fk, dberr)
       IN /\ db' = r.db
          /\ state' = [state EXCEPT ![t] =
                         IF r.raised THEN AfterFailure(t, run_count[t] + 1)
                         ELSE "Success"]
    /\ run_count' = [run_count EXCEPT ![t] = @ + 1]
    /\ dberrs' = IF dberr THEN dberrs + 1 ELSE dberrs
    /\ UNCHANGED << db_start, remote, flow_state, day_state, day_run_count, result,
                    last_run, call >>

\* The flow run ends when no task is left to run: Failed unless every terminal
\* task succeeded.
FinishRun ==
    /\ flow_state = "Running"
    /\ \A t \in Tasks : Finished(t)
    /\ flow_state' = IF \A t \in TerminalTasks : TaskState(t) = "Success"
                     THEN "Success" ELSE "Failed"
    /\ last_run' = IF state["rawdays_load_state"] = "Success"
                   THEN [stored |-> TRUE,
                         extracted |-> result.serialized_extracted_days]
                   ELSE NoRun
    /\ UNCHANGED << db, db_start, remote, state, run_count, day_state,
                    day_run_count, result, dberrs, call >>

Next ==
    \/ StartRun
    \/ \E d \in Dates, c \in DayContents : RemoteEdit(d, c)
    \/ GenerateDates
    \/ CreateDb
    \/ \E d \in Dates, ok \in BOOLEAN : GetDay(d, ok)
    \/ SerializeDays
    \/ SelectRawDays
    \/ FilterRecords
    \/ DeserializeRecords
    \/ \E t \in LoadTasks, dberr \in BOOLEAN : Load(t, dberr)
    \/ FinishRun

Spec == Init /\ [][Next]_vars

(***************************************************************************)
(* SQLiteExecuteMany.run called directly, as a caller of the task class    *)
(* may, with any statement of sql.py and any batch: rows with NULL in a    *)
(* NOT NULL column, with the key of a stored row or of another row of the  *)
(* batch, with or without their parent row; foreign keys enforced or not.  *)
(***************************************************************************)
Nulls(n) == [ i \in 1..n |-> Null ]

\* The parameter tuples the batches are drawn from, per table.
BatchRows(tbl) ==
    CASE tbl = "RawDayData" ->
             { << u, d, p >> : u \in {USER, Null}, d \in Dates, p \in {"a", "b"} }
      [] tbl = "Water" ->
             { << USER, d, q >> : d \in Dates, q \in {"1500", Null} }
      [] tbl = "Meals" ->
             { << USER, d, "lunch" >> \o Nulls(6) : d \in Dates }
      [] tbl = "MealEntries" ->
             { << USER, d, "lunch", "rice", "1", "g" >> \o Nulls(6) : d \in Dates }

RunQueries ==
    {insert_or_replace_rawdaydata_record, insert_water, insert_meals,
     insert_mealentries}

\* The batches of at most MaxBatch tuples for a statement.
Batches(query) ==
    UNION { [1..n -> BatchRows(query.table)] : n \in 0..MaxBatch }

InitRun ==
    /\ db = EmptyDb
    /\ db_start = EmptyDb
    /\ remote = [d \in Dates |-> CHOOSE c \in DayContents : TRUE]
    /\ flow_state = "Idle"
    /\ state = [t \in Tasks |-> "Pending"]
    /\ run_count = [t \in Tasks |-> 0]
    /\ day_state = [d \in Dates |-> "Pending"]
    /\ day_run_count = [d \in Dates |-> 0]
    /\ result = NoResult
    /\ dberrs = 0
    /\ last_run = NoRun
    /\ call = NoCall

\* create_mfp_database.run()
CreateTables ==
    /\ db.tables = {}
    /\ db' = create_mfp_database(db)
    /\ call' = [called |-> FALSE, n |-> call.n]
    /\ UNCHANGED << db_start, remote, flow_state, state, run_count, day_state,
                    day_run_count, result, dberrs, last_run >>

\* SQLiteExecuteMany(db, enforce_fk=enforce_fk).run(query=query, data=data)
Run(query, data, enforce_fk) ==
    /\ call.n < MaxCalls
    /\ LET r == SQLiteExecuteMany_run(db, query, data, enforce_fk, FALSE)
       IN /\ db' = r.db
          /\ call' = [called |-> TRUE, n |-> call.n + 1, query |-> query,
                      data |-> data, enforce_fk |-> enforce_fk, before |-> db,
                      raised |-> r.raised]
    /\ UNCHANGED << db_start, remote, flow_state, state, run_count, day_state,
                    day_run_count, result, dberrs, last_run >>

NextRun ==
    \/ CreateTables
    \/ \E query \in RunQueries, enforce_fk \in BOOLEAN :
          \E data \in Batches(query) : Run(query, data, enforce_fk)

SpecRun == InitRun /\ [][NextRun]_vars

(***************************************************************************)
(* The task class itself: SQLiteExecuteMany(...) constructs a task object  *)
(* with the attributes db, query, data and enforce_fk, and run(...) takes  *)
(* the same four as keyword arguments.  A Python value is a record whose   *)
(* field names its type, so that values of different types compare         *)
(* unequal; a statement record stands for its (non-empty) SQL string.      *)
(***************************************************************************)
PyStr(s) == [str |-> s]
PyBool(b) == [bool |-> b]
PyList(l) == [list |-> l]

\* The mark of a keyword argument the caller did not pass.
NotPassed == [py_object |-> "NotPassed"]

\* The location of the database file the variable db stands for.
DB_PATH == PyStr("mfp_db_file")

Attrs == {"db", "query", "data", "enforce_fk"}

\* SQLiteExecuteMany.__init__: the attributes of the constructed task.
SQLiteExecuteMany_init(db_path, query, data, enforce_fk) ==
    [db |-> db_path, query |-> query, data |-> data, enforce_fk |-> enforce_fk]

\* Attributes that win over the keyword arguments of run.
defaults_from_attrs_init_first(self, kwargs) ==
    [ a \in Attrs |-> IF self[a] # None THEN self[a]
                      ELSE IF kwargs[a] = NotPassed THEN None ELSE kwargs[a] ]

\* @defaults_from_attrs("db", "query", "data", "enforce_fk"): a keyword argument
\* that was not passed takes the value of the attribute of the same name.
defaults_from_attrs(self, kwargs) ==
    [ a \in Attrs |-> IF kwargs[a] = NotPassed THEN self[a] ELSE kwargs[a] ]

\* Python's truth value of an argument: None, "", [] and False are false.
Truth(x) == x \notin {None, PyStr(""), PyList(<< >>), PyBool(FALSE)}

\* The checks of run in the order query, db, data.
SQLiteExecuteMany_task_run_query_first(self, kwargs, d) ==
    LET a == defaults_from_attrs(self, kwargs)
    IN IF ~Truth(a.query)
       THEN [raised |-> TRUE, error |-> "ValueError: A query string must be provided",
             connected |-> FALSE, db |-> d]
       ELSE IF ~Truth(a.db)
       THEN [raised |-> TRUE,
             error |-> "ValueError: A database connection string must be provided",
             connected |-> FALSE, db |-> d]
       ELSE IF a.data = None
       THEN [raised |-> TRUE, error |-> "ValueError: A data list must be provided",
             connected |-> FALSE, db |-> d]
       ELSE LET r == SQLiteExecuteMany_run(d, a.query, a.data.list,
                                           Truth(a.enforce_fk), FALSE)
            IN [raised |-> r.raised,
                error |-> IF r.raised THEN "DatabaseError" ELSE "",
                connected |-> TRUE, db |-> r.db]

\* SQLiteExecuteMany.run as a caller reaches it, through the decorator: the three
\* checks, then the connection and the batch.
SQLiteExecuteMany_task_run(self, kwargs, d) ==
    LET a == defaults_from_attrs(self, kwargs)
    IN IF ~Truth(a.db)
       THEN [raised |-> TRUE,
             error |-> "ValueError: A database connection string must be provided",
             connected |-> FALSE, db |-> d]
       ELSE IF ~Truth(a.query)
       THEN [raised |-> TRUE, error |-> "ValueError: A query string must be provided",
             connected |-> FALSE, db |-> d]
       ELSE IF a.data = None
       THEN [raised |-> TRUE, error |-> "ValueError: A data list must be provided",
             connected |-> FALSE, db |-> d]
       ELSE LET r == SQLiteExecuteMany_run(d, a.query, a.data.list,
                                           Truth(a.enforce_fk), FALSE)
            IN [raised |-> r.raised,
                error |-> IF r.raised THEN "DatabaseError" ELSE "",
                connected |-> TRUE, db |-> r.db]

(***************************************************************************)
(* The task object used directly.  The initial state is the state after    *)
(* its construction; each step is one call of its run with keyword         *)
(* arguments.  The batches insert RawDayData and Water rows and delete     *)
(* RawDayData rows.                                                        *)
(***************************************************************************)
AllDates(tail) == [ d \in Dates |-> << USER, d >> \o tail ]

TaskQueries == {insert_or_replace_rawdaydata_record, insert_water, delete_rawdaydata}

TaskBatches(query) ==
    IF IsDelete(query)
    THEN { b \in UNION { [1..n -> { << USER, d >> : d \in Dates }] : n \in 0..MaxBatch } :
             \A i, j \in DOMAIN b : i < j => b[i][2] < b[j][2] }
    ELSE IF query.table = "Water" THEN { AllDates(<< "1500" >>) }
    ELSE { AllDates(<< "a" >>) }

\* The task objects: query and data given to the constructor or left None, with
\* the database and any enforce_fk, or with neither of the two.
TaskObjects ==
    { SQLiteExecuteMany_init(pfk[1], q, l, pfk[2]) :
        pfk \in ({DB_PATH} \X {None, PyBool(TRUE), PyBool(FALSE)})
                   \cup { << None, None >> },
        q \in {None, insert_or_replace_rawdaydata_record},
        l \in {None, PyList(AllDates(<< "a" >>))} }

\* The keyword arguments of a call: query and data passed together, one of them
\* passed empty, or neither passed.
QueryAndData ==
    { << NotPassed, NotPassed >>, << PyStr(""), NotPassed >>,
      << NotPassed, PyList(<< >>) >> }
    \cup UNION { { << q, PyList(b) >> : b \in TaskBatches(q) } : q \in TaskQueries }

TaskKwargs ==
    { [db |-> p, query |-> qd[1], data |-> qd[2], enforce_fk |-> fk] :
        p \in {NotPassed, DB_PATH},
        qd \in QueryAndData,
        fk \in {NotPassed, PyBool(TRUE), PyBool(FALSE)} }

InitTask ==
    /\ db = EmptyDb
    /\ db_start = EmptyDb
    /\ remote = [d \in Dates |-> CHOOSE c \in DayContents : TRUE]
    /\ flow_state = "Idle"
    /\ state = [t \in Tasks |-> "Pending"]
    /\ run_count = [t \in Tasks |-> 0]
    /\ day_state = [d \in Dates |-> "Pending"]
    /\ day_run_count = [d \in Dates |-> 0]
    /\ result = NoResult
    /\ dberrs = 0
    /\ last_run = NoRun
    /\ \E self \in TaskObjects : call = [called |-> FALSE, n |-> 0, task |-> self]

\* create_mfp_database.run()
TaskCreateTables ==
    /\ db.tables = {}
    /\ db' = create_mfp_database(db)
    /\ call' = [called |-> FALSE, n |-> 0, task |-> call.task]
    /\ UNCHANGED << db_start, remote, flow_state, state, run_count, day_state,
                    day_run_count, result, dberrs, last_run >>

\* task.run(**kwargs)
TaskRun(kwargs) ==
    /\ LET r == SQLiteExecuteMany_task_run(call.task, kwargs, db)
       IN /\ db' = r.db
          /\ call' = [called |-> TRUE, n |-> 0, task |-> call.task,
                      kwargs |-> kwargs, before |-> db, raised |-> r.raised,
                      error |-> r.error, connected |-> r.connected]
    /\ UNCHANGED << db_start, remote, flow_state, state, run_count, day_state,
                    day_run_count, result, dberrs, last_run >>

NextTask ==
    \/ TaskCreateTables
    \/ \E kwargs \in TaskKwargs : TaskRun(kwargs)

SpecTask == InitTask /\ [][NextTask]_vars

(***************************************************************************)
(* The adapter and the extract tasks applied to what the remote source     *)
(* holds: notes with and without body; no meal, a None element, a meal     *)
(* without entries and meals with entries; measures without data, without  *)
(* a value for the date, with the value 0 and with another value.          *)
(***************************************************************************)
ExtractContents ==
    { [notes |-> << <<"type", "food">>, <<"body", body>> >>,
       water |-> "1500",
       goals |-> << <<"calories", "2000">> >>,
       meals |-> meals,
       exercises |-> << << >>, << >> >>,
       measurements |-> held] :
        body \in {"", "noted"},
        meals \in { << >>,
                    << MealOf("breakfast", "300", << Entry("egg", "300") >>) >>,
                    << None,
                       MealOf("breakfast", "0", << >>),
                       MealOf("lunch", "700", << Entry("rice", "400"),
                                                 Entry("rice", "400") >>) >> },
        held \in { << >>,
                   << <<"Weight", "80">> >>,
                   << <<"Weight", "0">>, <<"Mood", "5">> >>,
                   << <<"Weight", Null>>, <<"Mood", "5">> >> } }

\* The values of the measures parameter of a run.
MeasureLists ==
    { << >>, << "Weight" >>, << "Weight", "Mood" >>, << "Neck", "Weight" >> }

NotApplied == [task |-> "none"]

InitExtract ==
    /\ db = EmptyDb
    /\ db_start = EmptyDb
    /\ remote \in [Dates -> ExtractContents]
    /\ flow_state = "Idle"
    /\ state = [t \in Tasks |-> "Pending"]
    /\ run_count = [t \in Tasks |-> 0]
    /\ day_state = [d \in Dates |-> "Pending"]
    /\ day_run_count = [d \in Dates |-> 0]
    /\ result = NotApplied
    /\ dberrs = 0
    /\ last_run = NoRun
    /\ call = NoCall

\* The result of task applied to the days the adapter returned.
Applied(task, returned) ==
    /\ result' = [task |-> task, measures |-> result.measures, days |-> result.days,
                  meals |-> IF task = "extract_meals" THEN returned ELSE result.meals,
                  returned |-> returned]
    /\ UNCHANGED << db, db_start, remote, flow_state, state, run_count, day_state,
                    day_run_count, dberrs, last_run, call >>

\* get_myfitnesspal_day mapped over the dates: the adapter builds each day.
AdapterGetDays(measure_list) ==
    /\ result = NotApplied
    /\ result' = [task |-> "get_myfitnesspal_day", measures |-> measure_list,
                  days |-> [ d \in Dates |->
                               get_myfitnesspaw_day(USER, d, measure_list, remote[d]) ],
                  meals |-> << >>, returned |-> << >>]
    /\ UNCHANGED << db, db_start, remote, flow_state, state, run_count, day_state,
                    day_run_count, dberrs, last_run, call >>

ExtractNotes ==
    /\ result.task = "get_myfitnesspal_day"
    /\ Applied("extract_notes", extract_notes(result.days))

ExtractMeals ==
    /\ result.task = "get_myfitnesspal_day"
    /\ Applied("extract_meals", extract_meals(result.days))

ExtractMealRecords ==
    /\ result.task = "extract_meals"
    /\ Applied("extract_meal_records", extract_meal_records(result.meals))

ExtractMealEntries ==
    /\ result.task = "extract_meals"
    /\ Applied("extract_mealentries", extract_mealentries(result.meals))

ExtractMeasures ==
    /\ result.task = "get_myfitnesspal_day"
    /\ Applied("extract_measures", extract_measures(result.days))

NextExtract ==
    \/ \E measure_list \in MeasureLists : AdapterGetDays(measure_list)
    \/ ExtractNotes
    \/ ExtractMeals
    \/ ExtractMealRecords
    \/ ExtractMealEntries
    \/ ExtractMeasures

SpecExtract == InitExtract /\ [][NextExtract]_vars

(***************************************************************************)
(* The dates of the extraction period.  A date is a day number; the text   *)
(* of a date is the sequence of its fields and separators, and Calendar    *)
(* gives the fields (year, month, day) of the days that have a text.       *)
(***************************************************************************)
Calendar ==
    << << "2020", "12", "30" >>, << "2020", "12", "31" >>,
       << "2021", "01", "01" >>, << "2021", "01", "02" >>,
       << "2021", "01", "03" >>, << "2021", "01", "04" >> >>

IsoText(n) == PyStr(<< Calendar[n][1], "-", Calendar[n][2], "-", Calendar[n][3] >>)

DottedText(n) == PyStr(<< Calendar[n][3], ".", Calendar[n][2], ".", Calendar[n][1] >>)

\* available_formats of try_parse_date_str, each as its directives and separators.
available_formats ==
    << << "%Y", "-", "%m", "-", "%d" >>,
       << "%d", ".", "%m", ".", "%Y" >>,
       << "%d", ".", "%m", ".", "%Y" >> >>

\* datetime.datetime.strptime(date_str, fmt): the text must have the separators
\* of the format, and the fields its directives name must be those of a day.
strptime(date_str, fmt) ==
    LET text == date_str.str
        Field(directive) == text[CHOOSE i \in DOMAIN fmt : fmt[i] = directive]
        IsDay(n) == Calendar[n] = << Field("%Y"), Field("%m"), Field("%d") >>
    IN IF /\ Len(text) = Len(fmt)
          /\ \A i \in DOMAIN fmt : fmt[i] \in {"%Y", "%m", "%d"} \/ text[i] = fmt[i]
          /\ \E n \in DOMAIN Calendar : IsDay(n)
       THEN [raised |-> "",
             value |-> [date |-> CHOOSE n \in DOMAIN Calendar : IsDay(n),
                        time |-> "00:00:00"]]
       ELSE [raised |-> "ValueError", value |-> None]

\* The loop of try_parse_date_str over the formats left to try.
RECURSIVE TryFormats(_, _)
TryFormats(date_str, formats) ==
    IF formats = << >>
    THEN [raised |-> "ValueError: No available format found to parse", value |-> None]
    ELSE LET parsed == strptime(date_str, Head(formats))
         IN IF parsed.raised = "" THEN parsed ELSE TryFormats(date_str, Tail(formats))

try_parse_date_str(date_str) == TryFormats(date_str, available_formats)

\* Bounds that take the default for a date string that was not given.
prepare_extraction_start_end_dates_default_missing(from_date_str, to_date_str, today) ==
    LET from_date == IF from_date_str = None
                     THEN [raised |-> "", value |-> [date |-> today - 6]]
                     ELSE try_parse_date_str(from_date_str)
        to_date == IF to_date_str = None
                   THEN [raised |-> "", value |-> [date |-> today - 1]]
                   ELSE try_parse_date_str(to_date_str)
    IN IF from_date.raised # "" THEN [raised |-> from_date.raised, value |-> << >>]
       ELSE IF to_date.raised # "" THEN [raised |-> to_date.raised, value |-> << >>]
       ELSE [raised |-> "", value |-> << from_date.value.date, to_date.value.date >>]

\* prepare_extraction_start_end_dates; today is datetime.date.today().
prepare_extraction_start_end_dates(from_date_str, to_date_str, today) ==
    LET default_from_date == today - 6
        default_to_date == today - 1
        from_date == IF from_date_str = None
                     THEN [raised |-> "", value |-> [date |-> default_from_date]]
                     ELSE try_parse_date_str(from_date_str)
        to_date == IF to_date_str = None
                   THEN [raised |-> "", value |-> [date |-> default_to_date]]
                   ELSE try_parse_date_str(to_date_str)
    IN IF \/ from_date_str # None /\ to_date_str = None
          \/ from_date_str = None /\ to_date_str # None
       THEN [raised |-> "ValueError: Either both from_date and to_date should be provided or neither",
             value |-> << >>]
       ELSE IF from_date.raised # "" THEN [raised |-> from_date.raised, value |-> << >>]
       ELSE IF to_date.raised # "" THEN [raised |-> to_date.raised, value |-> << >>]
       ELSE [raised |-> "", value |-> << from_date.value.date, to_date.value.date >>]

\* The task without its check of the order of the bounds.
generate_dates_to_extract_unchecked(from_date, to_date) ==
    [raised |-> "", value |-> generate_dates_to_extract(from_date, to_date)]

\* The task generate_dates_to_extract with its check of the order of the bounds.
generate_dates_to_extract_run(from_date, to_date) ==
    IF from_date > to_date
    THEN [raised |-> "ValueError: Parameter to_date cannot be before from_date",
          value |-> << >>]
    ELSE [raised |-> "", value |-> generate_dates_to_extract(from_date, to_date)]

\* The values of the from_date and to_date parameters of a run: not given, the
\* text of a day in either format, or a text no format accepts.
DateStrings ==
    {None}
    \cup { IsoText(n) : n \in DOMAIN Calendar }
    \cup { DottedText(n) : n \in DOMAIN Calendar }
    \cup { PyStr(<< "2021", "/", "01", "/", "01" >>), PyStr(<< "yesterday" >>),
           PyStr(<< "2021", "-", "02", "-", "30" >>), PyStr(<< >>) }

InitDates ==
    /\ db = EmptyDb
    /\ db_start = EmptyDb
    /\ remote = [d \in Dates |-> CHOOSE c \in DayContents : TRUE]
    /\ flow_state = "Idle"
    /\ state = [t \in Tasks |-> "Pending"]
    /\ run_count = [t \in Tasks |-> 0]
    /\ day_state = [d \in Dates |-> "Pending"]
    /\ day_run_count = [d \in Dates |-> 0]
    /\ result = NotApplied
    /\ dberrs = 0
    /\ last_run = NoRun
    /\ call = NoCall

PrepareDates(from_date_str, to_date_str, today) ==
    /\ result = NotApplied
    /\ LET r == prepare_extraction_start_end_dates(from_date_str, to_date_str, today)
       IN result' = [task |-> "prepare_extraction_start_end_dates",
                     from_date_str |-> from_date_str, to_date_str |-> to_date_str,
                     today |-> today, raised |-> r.raised, value |-> r.value]
    /\ UNCHANGED << db, db_start, remote, flow_state, state, run_count, day_state,
                    day_run_count, dberrs, last_run, call >>

\* generate_dates_to_extract(from_date, to_date) on the prepared bounds.
GenerateDatesToExtract ==
    /\ result.task = "prepare_extraction_start_end_dates"
    /\ result.raised = ""
    /\ LET r == generate_dates_to_extract_run(result.value[1], result.value[2])
       IN result' = [task |-> "generate_dates_to_extract",
                     defaults |-> result.from_date_str = None,
                     from_date |-> result.value[1], to_date |-> result.value[2],
                     raised |-> r.raised, value |-> r.value]
    /\ UNCHANGED << db, db_start, remote, flow_state, state, run_count, day_state,
                    day_run_count, dberrs, last_run, call >>

NextDates ==
    \/ \E from_date_str, to_date_str \in DateStrings, today \in Dates :
          PrepareDates(from_date_str, to_date_str, today)
    \/ GenerateDatesToExtract

SpecDates == InitDates /\ [][NextDates]_vars

(***************************************************************************)
(* The backup flow of flows.get_backup_flow.  The Dropbox backup directory *)
(* is the set of the names of its files; a name is a text, the sequence of *)
(* its words and separators.  state ranges over the tasks of this flow and *)
(* result holds the directory, the day of the run and what the tasks       *)
(* returned.                                                               *)
(***************************************************************************)
\* The number of backups apply_backup_rotation_scheme keeps.
KeptBackups == 5

\* The "%Y-%m-%d" of make_dropbox_backup and select_fifo_backups_to_delete.
timestamp_format == << "%Y", "-", "%m", "-", "%d" >>

\* The abbreviated name of a month, the "%b" of strftime.
MonthName(month) == IF month = "12" THEN "Dec" ELSE "Jan"

\* ts.strftime(fmt): the fields of the day in the places of the directives.
strftime(ts, fmt) ==
    PyStr([ i \in DOMAIN fmt |->
              IF fmt[i] = "%Y" THEN Calendar[ts.date][1]
              ELSE IF fmt[i] = "%m" THEN Calendar[ts.date][2]
              ELSE IF fmt[i] = "%b" THEN MonthName(Calendar[ts.date][2])
              ELSE IF fmt[i] = "%d" THEN Calendar[ts.date][3]
              ELSE fmt[i] ])

\* f"mfp_db_backup_{timestamp}"
BackupName(timestamp) ==
    PyStr(<< "mfp", "_", "db", "_", "backup", "_" >> \o timestamp.str)

\* The name of the backup file of a day.
BackupOf(n) == BackupName(strftime([date |-> n, time |-> "00:00:00"], timestamp_format))

\* str.split(sep) over the rest of a text, part being the piece read so far.
RECURSIVE SplitParts(_, _, _)
SplitParts(text, sep, part) ==
    IF text = << >> THEN << PyStr(part) >>
    ELSE IF Head(text) = sep
    THEN << PyStr(part) >> \o SplitParts(Tail(text), sep, << >>)
    ELSE SplitParts(Tail(text), sep, Append(part, Head(text)))

split(f, sep) == SplitParts(f.str, sep, << >>)

\* The comprehension of select_fifo_backups_to_delete over the files left: the
\* timestamp of each file, or the first exception.
RECURSIVE Timestamps(_)
Timestamps(files_list) ==
    IF files_list = << >> THEN [raised |-> "", value |-> << >>]
    ELSE LET parts == split(Head(files_list), "_")
         IN IF Len(parts) < 4 THEN [raised |-> "IndexError", value |-> << >>]
            ELSE LET ts == strptime(parts[4], timestamp_format)
                     rest == Timestamps(Tail(files_list))
                 IN IF ts.raised # "" THEN [raised |-> ts.raised, value |-> << >>]
                    ELSE IF rest.raised # "" THEN rest
                    ELSE [raised |-> "", value |-> << ts.value >> \o rest.value]

\* The selection that takes the files from the recent end of the sorted list.
select_fifo_backups_to_delete_newest(max_num_backups, files_list) ==
    LET parsed == Timestamps(files_list)
        timestamps == SortSeq(parsed.value, LAMBDA a, b : a.date > b.date)
        cut_index == Len(timestamps) - max_num_backups
    IN IF parsed.raised # "" THEN parsed
       ELSE IF Len(timestamps) <= max_num_backups THEN [raised |-> "", value |-> << >>]
       ELSE [raised |-> "",
             value |-> [ i \in 1..(IF cut_index < Len(timestamps) THEN cut_index
                                   ELSE Len(timestamps)) |->
                           BackupName(strftime(timestamps[i], timestamp_format)) ]]

\* select_fifo_backups_to_delete; timestamps[:cut_index] stops at the end of
\* the list.
select_fifo_backups_to_delete(max_num_backups, files_list) ==
    LET parsed == Timestamps(files_list)
        timestamps == SortSeq(parsed.value, LAMBDA a, b : a.date < b.date)
        cut_index == Len(timestamps) - max_num_backups
    IN IF parsed.raised # "" THEN parsed
       ELSE IF Len(timestamps) <= max_num_backups THEN [raised |-> "", value |-> << >>]
       ELSE [raised |-> "",
             value |-> [ i \in 1..(IF cut_index < Len(timestamps) THEN cut_index
                                   ELSE Len(timestamps)) |->
                           BackupName(strftime(timestamps[i], timestamp_format)) ]]

\* The orders in which the names of a directory can be listed.
RECURSIVE Listings(_)
Listings(names) ==
    IF names = {} THEN { << >> }
    ELSE UNION { { << f >> \o rest : rest \in Listings(names \ {f}) } : f \in names }

BackupTasks == {"backup_result", "avail_backups", "res"}

\* A file of the directory that is not a backup.
OtherFile == PyStr(<< "readme" >>)

\* What the directory can hold before a run.
DirectoryFiles == { BackupOf(n) : n \in DOMAIN Calendar } \cup {OtherFile}

InitBackup ==
    /\ db = EmptyDb
    /\ db_start = EmptyDb
    /\ remote = [d \in Dates |-> CHOOSE c \in DayContents : TRUE]
    /\ flow_state = "Idle"
    /\ state = [t \in BackupTasks |-> "Pending"]
    /\ run_count = [t \in BackupTasks |-> 0]
    /\ day_state = [d \in Dates |-> "Pending"]
    /\ day_run_count = [d \in Dates |-> 0]
    /\ \E dir \in SUBSET DirectoryFiles,
          today \in {Len(Calendar) - 1, Len(Calendar)} :
          result = [dir |-> dir, before |-> dir, today |-> today,
                    avail_backups |-> << >>, files_to_delete |-> << >>,
                    deleted |-> << >>]
    /\ dberrs = 0
    /\ last_run = NoRun
    /\ call = NoCall

BackupUnchanged ==
    UNCHANGED << db, db_start, remote, day_state, day_run_count, dberrs, last_run, call >>

BackupStartRun ==
    /\ flow_state = "Idle"
    /\ flow_state' = "Running"
    /\ UNCHANGED << state, run_count, result >>
    /\ BackupUnchanged

\* A task of the flow ends in new_state.
BackupTaskEnds(t, new_state) ==
    /\ state' = [state EXCEPT ![t] = new_state]
    /\ run_count' = [run_count EXCEPT ![t] = @ + 1]
    /\ UNCHANGED flow_state
    /\ BackupUnchanged

\* make_dropbox_backup: files_upload with WriteMode.overwrite.
MakeDropboxBackup ==
    /\ flow_state = "Running"
    /\ state["backup_result"] = "Pending"
    /\ result' = [result EXCEPT !.dir = @ \cup {BackupOf(result.today)}]
    /\ BackupTaskEnds("backup_result", "Success")

\* dbx_list_available_backups: the names of the entries, in the order of the
\* service.
DbxListAvailableBackups ==
    /\ flow_state = "Running"
    /\ state["avail_backups"] = "Pending"
    /\ \E files_list \in Listings(result.dir) :
          result' = [result EXCEPT !.avail_backups = files_list]
    /\ BackupTaskEnds("avail_backups", "Success")

\* apply_backup_rotation_scheme up to its loop.
ApplyBackupRotationScheme ==
    /\ flow_state = "Running"
    /\ state["avail_backups"] = "Success"
    /\ state["res"] = "Pending"
    /\ LET files_to_delete ==
               select_fifo_backups_to_delete(KeptBackups, result.avail_backups)
       IN IF files_to_delete.raised # ""
          THEN /\ UNCHANGED result
               /\ BackupTaskEnds("res", "Failed")
          ELSE IF files_to_delete.value = << >>
          THEN /\ UNCHANGED result
               /\ BackupTaskEnds("res", "Success")
          ELSE /\ result' = [result EXCEPT !.files_to_delete = files_to_delete.value]
               /\ state' = [state EXCEPT !["res"] = "Running"]
               /\ UNCHANGED << flow_state, run_count >>
               /\ BackupUnchanged

\* One pass of the loop of apply_backup_rotation_scheme: files_delete of the next
\* file, which raises when the directory has no file of the name.
DbxFilesDelete ==
    /\ flow_state = "Running"
    /\ state["res"] = "Running"
    /\ LET filename == Head(result.files_to_delete)
       IN IF filename \notin result.dir
          THEN /\ UNCHANGED result
               /\ BackupTaskEnds("res", "Failed")
          ELSE /\ result' = [result EXCEPT !.dir = @ \ {filename},
                                           !.files_to_delete = Tail(@),
                                           !.deleted = Append(@, filename)]
               /\ IF Tail(result.files_to_delete) = << >>
                  THEN BackupTaskEnds("res", "Success")
                  ELSE /\ UNCHANGED << flow_state, state, run_count >>
                       /\ BackupUnchanged

BackupFinishRun ==
    /\ flow_state = "Running"
    /\ \A t \in BackupTasks : state[t] \in {"Success", "Failed"}
    /\ flow_state' = IF \A t \in BackupTasks : state[t] = "Success"
                     THEN "Success" ELSE "Failed"
    /\ UNCHANGED << state, run_count, result >>
    /\ BackupUnchanged

NextBackup ==
    \/ BackupStartRun
    \/ MakeDropboxBackup
    \/ DbxListAvailableBackups
    \/ ApplyBackupRotationScheme
    \/ DbxFilesDelete
    \/ BackupFinishRun

SpecBackup == InitBackup /\ [][NextBackup]_vars

(***************************************************************************)
(* select_fifo_backups_to_delete applied to lists of backup files.         *)
(***************************************************************************)
\* The values of max_num_backups.
MaxNumBackups == 0..3

\* The lists of files: the backups of some days, in any order.
FilesLists == UNION { Listings(names) : names \in SUBSET { BackupOf(n) : n \in 1..4 } }

InitFifo ==
    /\ db = EmptyDb
    /\ db_start = EmptyDb
    /\ remote = [d \in Dates |-> CHOOSE c \in DayContents : TRUE]
    /\ flow_state = "Idle"
    /\ state = [t \in Tasks |-> "Pending"]
    /\ run_count = [t \in Tasks |-> 0]
    /\ day_state = [d \in Dates |-> "Pending"]
    /\ day_run_count = [d \in Dates |-> 0]
    /\ result = NotApplied
    /\ dberrs = 0
    /\ last_run = NoRun
    /\ call = NoCall

SelectFifoBackupsToDelete(max_num_backups, files_list) ==
    /\ result = NotApplied
    /\ LET r == select_fifo_backups_to_delete(max_num_backups, files_list)
       IN result' = [task |-> "select_fifo_backups_to_delete",
                     max_num_backups |-> max_num_backups, files_list |-> files_list,
                     raised |-> r.raised, value |-> r.value]
    /\ UNCHANGED << db, db_start, remote, flow_state, state, run_count, day_state,
                    day_run_count, dberrs, last_run, call >>

NextFifo ==
    \E max_num_backups \in MaxNumBackups, files_list \in FilesLists :
        SelectFifoBackupsToDelete(max_num_backups, files_list)

SpecFifo == InitFifo /\ [][NextFifo]_vars

(***************************************************************************)
(* The progress report.  A number of a row or of a report is PyInt(n), so  *)
(* that it can be told from None; a series gives, for consecutive days from *)
(* the first day of the store, what the database holds about the deficit   *)
(* of the day.  The statement select_daily_report is not part of the       *)
(* sources: its rows are those the specification of the aggregation        *)
(* describes.                                                              *)
(***************************************************************************)
PyInt(n) == [int |-> n]

abs(n) == IF n < 0 THEN -n ELSE n

\* dict.get(key, default)
dict_get(dict, key, default) ==
    IF \E i \in DOMAIN dict : dict[i][1] = key
    THEN dict[CHOOSE i \in DOMAIN dict : dict[i][1] = key][2]
    ELSE default

\* list[-n:] for n >= 0: the last n elements, and the whole list for n = 0 or a
\* list of fewer than n elements.
LastElements(list, n) ==
    IF n = 0 \/ n >= Len(list) THEN list
    ELSE SubSeq(list, Len(list) - n + 1, Len(list))

\* The "%d-%b-%Y" of the dates of the report rows.
report_date_format == << "%d", "-", "%b", "-", "%Y" >>

\* The running sum of deficit_actual over the days 1..i of a series; a day
\* without deficit_actual adds nothing, and the sum of no value is None.
RECURSIVE DeficitAccumulated(_, _)
DeficitAccumulated(series, i) ==
    IF i = 0 THEN None
    ELSE LET before == DeficitAccumulated(series, i - 1)
             actual == series[i].deficit_actual
         IN IF actual = None THEN before
            ELSE IF before = None THEN actual
            ELSE PyInt(before.int + actual.int)

\* The rows of sql.select_daily_report for a starting date: one row
\* (day_number, date, calories_target, deficit_target, deficit_actual,
\* deficit_accumulated) per day of the store from the starting date on, in date
\* order, numbered and accumulated over all these days.
select_daily_report(stored, starting_date) ==
    LET start == strptime(starting_date, timestamp_format).value.date
        series == IF start > Len(stored) THEN << >>
                  ELSE SubSeq(stored, start, Len(stored))
    IN [ i \in 1..Len(series) |->
           << PyInt(i),
              strftime([date |-> start + i - 1, time |-> "00:00:00"], report_date_format),
              PyInt(series[i].calories_target),
              PyInt(series[i].deficit_target),
              series[i].deficit_actual,
              DeficitAccumulated(series, i) >> ]

\* The chart data with the middle segment left out of the warning bar.
calculate_chart_data_no_overage(end_goal, report_data) ==
    LET current_date == report_data[2]
        deficit_actual == report_data[5].int
        deficit_accumulated == report_data[6].int
    IN IF deficit_actual < 0
       THEN LET deficit_remaining == end_goal - deficit_accumulated + abs(deficit_actual)
            IN [chart_data |->
                    << << current_date,
                          << << deficit_accumulated - abs(deficit_actual),
                                abs(deficit_actual),
                                deficit_remaining >>,
                             "warning" >> >> >>,
                deficit_remaining |-> deficit_remaining]
       ELSE LET deficit_remaining == end_goal - deficit_accumulated - deficit_actual
            IN [chart_data |->
                    << << current_date,
                          << << deficit_accumulated, deficit_actual, deficit_remaining >>,
                             "accent" >> >> >>,
                deficit_remaining |-> deficit_remaining]

\* The chart data that takes a day without surplus for a day over target.
calculate_chart_data_zero_warns(end_goal, report_data) ==
    LET current_date == report_data[2]
        deficit_actual == report_data[5].int
        deficit_accumulated == report_data[6].int
    IN IF deficit_actual <= 0
       THEN LET deficit_remaining == end_goal - deficit_accumulated + abs(deficit_actual)
            IN [chart_data |->
                    << << current_date,
                          << << deficit_accumulated - abs(deficit_actual),
                                abs(deficit_actual),
                                deficit_remaining + deficit_actual >>,
                             "warning" >> >> >>,
                deficit_remaining |-> deficit_remaining]
       ELSE LET deficit_remaining == end_goal - deficit_accumulated - deficit_actual
            IN [chart_data |->
                    << << current_date,
                          << << deficit_accumulated, deficit_actual, deficit_remaining >>,
                             "accent" >> >> >>,
                deficit_remaining |-> deficit_remaining]

\* calculate_chart_data: the dict it returns, and its local deficit_remaining.
calculate_chart_data(end_goal, report_data) ==
    LET current_date == report_data[2]
        deficit_actual == report_data[5].int
        deficit_accumulated == report_data[6].int
    IN IF deficit_actual < 0
       THEN LET deficit_remaining == end_goal - deficit_accumulated + abs(deficit_actual)
            IN [chart_data |->
                    << << current_date,
                          << << deficit_accumulated - abs(deficit_actual),
                                abs(deficit_actual),
                                deficit_remaining + deficit_actual >>,
                             "warning" >> >> >>,
                deficit_remaining |-> deficit_remaining]
       ELSE LET deficit_remaining == end_goal - deficit_accumulated - deficit_actual
            IN [chart_data |->
                    << << current_date,
                          << << deficit_accumulated, deficit_actual, deficit_remaining >>,
                             "accent" >> >> >>,
                deficit_remaining |-> deficit_remaining]

\* str.capitalize() over a text of letters: the first in upper case, the
\* others in lower case.
capitalize(text) ==
    LET upper(c) == IF c = "j" THEN "J" ELSE IF c = "d" THEN "D" ELSE c
        lower(c) == IF c = "J" THEN "j" ELSE IF c = "D" THEN "d" ELSE c
    IN PyStr([ i \in DOMAIN text.str |->
                 IF i = 1 THEN upper(text.str[i]) ELSE lower(text.str[i]) ])

nutrition_tbl_header ==
    << "day", "date", "cal target", "deficit target", "deficit actual", "running deficit" >>

\* The rows of report_data the report shows: those with a deficit_actual.
ReportWindowData(report_data) ==
    SelectSeq(report_data, LAMBDA row : row[5] # None)

\* date.today() - timedelta(days=1), as "%d-%b-%Y".
YesterdayStr(today) ==
    strftime([date |-> today - 1, time |-> "00:00:00"], report_date_format)

\* The report that numbers the day by the rows it shows.
mfp_select_daily_report_data_counting(user, report_data, end_goal, report_tbl_span_limit, today) ==
    LET report_window_data == ReportWindowData(report_data)
        yesterday_str == YesterdayStr(today)
    IN IF report_window_data = << >>
          \/ report_window_data[Len(report_window_data)][2] # yesterday_str
       THEN << >>
       ELSE LET yesterday_tbl_row == report_window_data[Len(report_window_data)]
                current_day_number == PyInt(Len(report_window_data))
            IN << << "subject", << "MyfitnessPaw Daily Report (Day ", current_day_number, ")" >> >>,
                  << "title", << "MyFitnessPaw Daily Report (Day ", current_day_number, ")" >> >>,
                  << "user", capitalize(user) >>,
                  << "today", strftime([date |-> today], << "%d", " ", "%b", " ", "%Y" >>) >>,
                  << "current_day_number", current_day_number >>,
                  << "nutrition_tbl_header", nutrition_tbl_header >>,
                  << "nutrition_tbl_data",
                     LastElements(report_window_data, report_tbl_span_limit) >>,
                  << "chart_data", calculate_chart_data(end_goal, yesterday_tbl_row).chart_data >>,
                  << "highlight_row_data", None >> >>

\* The report that is due whenever the store has a row to show.
mfp_select_daily_report_data_any_date(user, report_data, end_goal, report_tbl_span_limit, today) ==
    LET report_window_data == ReportWindowData(report_data)
    IN IF report_window_data = << >>
       THEN << >>
       ELSE LET yesterday_tbl_row == report_window_data[Len(report_window_data)]
                current_day_number == yesterday_tbl_row[1]
            IN << << "subject", << "MyfitnessPaw Daily Report (Day ", current_day_number, ")" >> >>,
                  << "title", << "MyFitnessPaw Daily Report (Day ", current_day_number, ")" >> >>,
                  << "user", capitalize(user) >>,
                  << "today", strftime([date |-> today], << "%d", " ", "%b", " ", "%Y" >>) >>,
                  << "current_day_number", current_day_number >>,
                  << "nutrition_tbl_header", nutrition_tbl_header >>,
                  << "nutrition_tbl_data",
                     LastElements(report_window_data, report_tbl_span_limit) >>,
                  << "chart_data", calculate_chart_data(end_goal, yesterday_tbl_row).chart_data >>,
                  << "highlight_row_data", None >> >>

\* mfp_select_daily_report_data on the rows the statement returned (report_data)
\* on the day today; the footer with the time of the clock is left out.
mfp_select_daily_report_data(user, report_data, end_goal, report_tbl_span_limit, today) ==
    LET report_window_data == ReportWindowData(report_data)
        yesterday_str == YesterdayStr(today)
    IN IF report_window_data = << >>
          \/ report_window_data[Len(report_window_data)][2] # yesterday_str
       THEN << >>
       ELSE LET yesterday_tbl_row == report_window_data[Len(report_window_data)]
                current_day_number == yesterday_tbl_row[1]
            IN << << "subject", << "MyfitnessPaw Daily Report (Day ", current_day_number, ")" >> >>,
                  << "title", << "MyFitnessPaw Daily Report (Day ", current_day_number, ")" >> >>,
                  << "user", capitalize(user) >>,
                  << "today", strftime([date |-> today], << "%d", " ", "%b", " ", "%Y" >>) >>,
                  << "current_day_number", current_day_number >>,
                  << "nutrition_tbl_header", nutrition_tbl_header >>,
                  << "nutrition_tbl_data",
                     LastElements(report_window_data, report_tbl_span_limit) >>,
                  << "chart_data", calculate_chart_data(end_goal, yesterday_tbl_row).chart_data >>,
                  << "highlight_row_data", None >> >>

\* ProgressReport._prepare_nutrition_table on the day today.
ProgressReport__prepare_nutrition_table(self, today) ==
    LET yesterday_str == YesterdayStr(today)
        report_window_data == ReportWindowData(self.data)
    IN IF report_window_data = << >>
          \/ report_window_data[Len(report_window_data)][2] # yesterday_str
       THEN << >>
       ELSE LastElements(report_window_data, self.num_rows_report_tbl)

\* ProgressReport._render_progress_bar_chart up to chart_data: the empty dict
\* _prepare_nutrition_table returns has no key -1.
ProgressReport__render_progress_bar_chart(self, today) ==
    LET nutrition_tbl_data == ProgressReport__prepare_nutrition_table(self, today)
    IN IF nutrition_tbl_data = << >>
       THEN [raised |-> "KeyError", chart_data |-> << >>, deficit_remaining |-> 0]
       ELSE LET yesterday_tbl_row == nutrition_tbl_data[Len(nutrition_tbl_data)]
                current_date == yesterday_tbl_row[2]
                deficit_actual == yesterday_tbl_row[5].int
                deficit_accumulated == yesterday_tbl_row[6].int
            IN IF deficit_actual < 0
               THEN LET deficit_remaining ==
                            self.end_goal - deficit_accumulated + abs(deficit_actual)
                    IN [raised |-> "",
                        chart_data |->
                            << << current_date,
                                  << << deficit_accumulated - abs(deficit_actual),
                                        abs(deficit_actual),
                                        deficit_remaining + deficit_actual >>,
                                     "warning" >> >> >>,
                        deficit_remaining |-> deficit_remaining]
               ELSE LET deficit_remaining ==
                            self.end_goal - deficit_accumulated - deficit_actual
                    IN [raised |-> "",
                        chart_data |->
                            << << current_date,
                                  << << deficit_accumulated, deficit_actual,
                                        deficit_remaining >>,
                                     "accent0" >> >> >>,
                        deficit_remaining |-> deficit_remaining]

\* ProgressReport.__init__ with the default style and template: the object, or
\* the exception that ended the construction.
ProgressReport_init(user, report_data, today) ==
    LET data == dict_get(report_data, "data_table", None)
        starting_date == dict_get(report_data, "starting_date", None)
        period_start_date == IF starting_date = None
                             THEN [raised |-> "TypeError", value |-> None]
                             ELSE strptime(starting_date, timestamp_format)
        NotConstructed(raised) == [raised |-> raised, self |-> None]
    IN IF period_start_date.raised # "" THEN NotConstructed(period_start_date.raised)
       ELSE IF data = None THEN NotConstructed("TypeError")
       ELSE IF data.list = << >> THEN NotConstructed("IndexError")
       ELSE LET self == [user |-> user,
                         data |-> data.list,
                         period_start_date |-> period_start_date.value,
                         current_day_number |-> data.list[Len(data.list)][1],
                         email_subject |-> << "MyfitnessPaw Progress Report (Day ",
                                              data.list[Len(data.list)][1], ")" >>,
                         end_goal |-> dict_get(report_data, "end_goal", None),
                         num_rows_report_tbl |->
                             dict_get(report_data, "num_rows_report_tbl", 7)]
                chart == ProgressReport__render_progress_bar_chart(self, today)
            IN IF chart.raised # "" THEN NotConstructed(chart.raised)
               ELSE [raised |-> "",
                     self |-> self,
                     nutrition_tbl_data |-> ProgressReport__prepare_nutrition_table(self, today),
                     chart_data |-> chart.chart_data,
                     deficit_remaining |-> chart.deficit_remaining]

\* What the store holds about a day: the targets, and the deficit of the day
\* once a meal of the day is recorded.
StoredDays ==
    { [calories_target |-> 2000, deficit_target |-> 500, deficit_actual |-> actual] :
        actual \in {None, PyInt(-200), PyInt(150), PyInt(-50), PyInt(0)} }

\* The number of days of the store.
MaxSeries == 3

StoredSeries == UNION { [1..n -> StoredDays] : n \in 0..MaxSeries }

\* The values of the end_goal parameter of a run.
EndGoals == {100, 1000}

\* The values of the parameter that limits the rows of the table.
SpanLimits == {1, 7}

ReportUser == PyStr(<< "j", "D" >>)

InitReport ==
    /\ db = EmptyDb
    /\ db_start = EmptyDb
    /\ remote = [d \in Dates |-> CHOOSE c \in DayContents : TRUE]
    /\ flow_state = "Idle"
    /\ state = [t \in Tasks |-> "Pending"]
    /\ run_count = [t \in Tasks |-> 0]
    /\ day_state = [d \in Dates |-> "Pending"]
    /\ day_run_count = [d \in Dates |-> 0]
    /\ result = NotApplied
    /\ dberrs = 0
    /\ last_run = NoRun
    /\ call = NoCall

\* mfp_select_daily_report_data on the day today, the store holding stored.
SelectDailyReportData(stored, starting_date, end_goal, report_tbl_span_limit, today) ==
    /\ result = NotApplied
    /\ LET report_data == select_daily_report(stored, starting_date)
       IN result' = [task |-> "mfp_select_daily_report_data",
                     stored |-> stored, starting_date |-> starting_date,
                     end_goal |-> end_goal, span_limit |-> report_tbl_span_limit,
                     today |-> today, report_data |-> report_data,
                     returned |-> mfp_select_daily_report_data(
                                      ReportUser, report_data, end_goal,
                                      report_tbl_span_limit, today)]
    /\ UNCHANGED << db, db_start, remote, flow_state, state, run_count, day_state,
                    day_run_count, dberrs, last_run, call >>

\* ProgressReport(user, report_data) on the same day, the report data holding
\* the rows of the store.
MakeReport ==
    /\ result.task = "mfp_select_daily_report_data"
    /\ LET report_data == << << "data_table", PyList(result.report_data) >>,
                             << "starting_date", result.starting_date >>,
                             << "end_goal", result.end_goal >>,
                             << "num_rows_report_tbl", result.span_limit >> >>
       IN result' = [task |-> "ProgressReport",
                     starting_date |-> result.starting_date,
                     end_goal |-> result.end_goal, span_limit |-> result.span_limit,
                     today |-> result.today, report_data |-> result.report_data,
                     report |-> ProgressReport_init(ReportUser, report_data, result.today)]
    /\ UNCHANGED << db, db_start, remote, flow_state, state, run_count, day_state,
                    day_run_count, dberrs, last_run, call >>

NextReport ==
    \/ \E stored \in StoredSeries, start \in 1..2, end_goal \in EndGoals,
          report_tbl_span_limit \in SpanLimits, today \in 2..(MaxSeries + 2) :
          SelectDailyReportData(stored, IsoText(start), end_goal,
                                report_tbl_span_limit, today)
    \/ MakeReport

SpecReport == InitReport /\ [][NextReport]_vars

(***************************************************************************)
(* extract_cardio_exercises_from_days of flows/etl_flow.py and             *)
(* extract_cardio_exercises of tasks.py applied to the same days; a day of *)
(* flows/etl_flow.py carries its user, date and exercises as _username,    *)
(* _date and _exercises.                                                   *)
(***************************************************************************)
\* The loop of extract_cardio_exercises_from_days over the days left.  The
\* inner loop binds exercise_entry for each record of the day; the append is
\* a statement of the outer loop and raises UnboundLocalError while no record
\* has bound the name.
RECURSIVE CardioFromDays(_, _, _)
CardioFromDays(days, cardio_list, exercise_entry) ==
    IF days = << >> THEN [raised |-> "", value |-> cardio_list]
    ELSE LET day == Head(days)
             records == day.exercises[1]
             last == records[Len(records)]
             entry == IF records = << >> THEN exercise_entry
                      ELSE [bound |-> TRUE,
                            value |-> << day.username, day.date, last.name,
                                         Get(last.nutrition_information, "minutes"),
                                         Get(last.nutrition_information,
                                             "calories burned") >>]
         IN IF ~entry.bound THEN [raised |-> "UnboundLocalError", value |-> << >>]
            ELSE CardioFromDays(Tail(days), Append(cardio_list, entry.value), entry)

extract_cardio_exercises_from_days(days) ==
    CardioFromDays(days, << >>, [bound |-> FALSE, value |-> << >>])

\* The cardio exercises a day can have.
CardioRecords ==
    { << >>,
      << Exercise("run", << <<"minutes", "30">>, <<"calories burned", "300">> >>) >>,
      << Exercise("walk", << <<"minutes", "60">> >>) >>,
      << Exercise("run", << <<"minutes", "30">>, <<"calories burned", "300">> >>),
         Exercise("walk", << <<"minutes", "60">> >>) >> }

\* The number of days of a call.
MaxDays == 3

\* The days of a call: consecutive dates, each with its cardio exercises.
CardioDays ==
    UNION { { [ i \in 1..n |->
                  [username |-> USER, date |-> i,
                   exercises |-> << cardio[i], << >> >>] ] :
              cardio \in [1..n -> CardioRecords] } : n \in 0..MaxDays }

InitCardio ==
    /\ db = EmptyDb
    /\ db_start = EmptyDb
    /\ remote = [d \in Dates |-> CHOOSE c \in DayContents : TRUE]
    /\ flow_state = "Idle"
    /\ state = [t \in Tasks |-> "Pending"]
    /\ run_count = [t \in Tasks |-> 0]
    /\ day_state = [d \in Dates |-> "Pending"]
    /\ day_run_count = [d \in Dates |-> 0]
    /\ result = NotApplied
    /\ dberrs = 0
    /\ last_run = NoRun
    /\ call = NoCall

ExtractCardioExercisesFromDays(days) ==
    /\ result = NotApplied
    /\ LET r == extract_cardio_exercises_from_days(days)
       IN result' = [task |-> "extract_cardio_exercises_from_days", days |-> days,
                     raised |-> r.raised, value |-> r.value]
    /\ UNCHANGED << db, db_start, remote, flow_state, state, run_count, day_state,
                    day_run_count, dberrs, last_run, call >>

ExtractCardioExercises(days) ==
    /\ result = NotApplied
    /\ result' = [task |-> "extract_cardio_exercises", days |-> days,
                  raised |-> "", value |-> extract_cardio_exercises(days)]
    /\ UNCHANGED << db, db_start, remote, flow_state, state, run_count, day_state,
                    day_run_count, dberrs, last_run, call >>

NextCardio ==
    \/ \E days \in CardioDays : ExtractCardioExercisesFromDays(days)
    \/ \E days \in CardioDays : ExtractCardioExercises(days)

SpecCardio == InitCardio /\ [][NextCardio]_vars

(***************************************************************************)
(* The module-level flow of myfitnesspaw/etl_flow.py.  Its tasks are       *)
(* defined in that file; a task is named by the variable that holds it in   *)
(* the flow, and each decomposer is evaluated by the load that consumes it. *)
(* state, run_count and result range over the tasks of this flow; dberrs    *)
(* counts the remote requests that failed.                                 *)
(***************************************************************************)
ModuleChildLoads ==
    {"notes_load_state", "water_load_state", "goals_load_state", "meals_load_state",
     "mealentries_load_state", "cardio_exercises_load_state",
     "strength_exercises_load_state", "measurements_load_state"}

ModuleTasks ==
    {"database_dir_exists", "database_exists", "dates_to_extract", "extracted_days",
     "serialized_extracted_days", "mfp_existing_days", "serialized_days_to_process",
     "raw_days_load_state", "days_to_process", "measurements_records"}
    \cup ModuleChildLoads

ModuleUpstream(t) ==
    CASE t = "database_dir_exists" -> {}
      [] t = "database_exists" -> {"database_dir_exists"}
      [] t = "dates_to_extract" -> {}
      [] t = "extracted_days" -> {"dates_to_extract"}
      [] t = "serialized_extracted_days" -> {"extracted_days"}
      [] t = "mfp_existing_days" -> {"dates_to_extract", "database_exists"}
      [] t = "serialized_days_to_process" ->
             {"serialized_extracted_days", "mfp_existing_days"}
      [] t = "raw_days_load_state" -> {"serialized_days_to_process"}
      [] t = "days_to_process" -> {"serialized_days_to_process", "raw_days_load_state"}
      [] t = "mealentries_load_state" -> {"days_to_process", "meals_load_state"}
      [] t = "measurements_records" -> {}
      [] t = "measurements_load_state" -> {"measurements_records", "database_exists"}
      [] OTHER -> {"days_to_process"}

ModuleTerminalTasks ==
    { t \in ModuleTasks : \A u \in ModuleTasks : t \notin ModuleUpstream(u) }

ModuleMaxRetries(t) ==
    IF t \in {"extracted_days", "measurements_records"} THEN module_max_retries ELSE 0

ModuleAfterFailure(t, count) ==
    IF count <= ModuleMaxRetries(t) THEN "Retrying" ELSE "Failed"

RECURSIVE ModuleUpstreamClosure(_)
ModuleUpstreamClosure(t) ==
    ModuleUpstream(t) \cup UNION { ModuleUpstreamClosure(u) : u \in ModuleUpstream(t) }

ModuleAncestors == [ t \in ModuleTasks |-> ModuleUpstreamClosure(t) ]

ModuleTaskState(t) ==
    IF OwnState(t) \notin {"Pending", "Retrying"} THEN OwnState(t)
    ELSE IF \E a \in ModuleAncestors[t] : OwnState(a) = "Failed" THEN "TriggerFailed"
    ELSE OwnState(t)

ModuleCanRun(t) ==
    /\ flow_state = "Running"
    /\ state[t] \in {"Pending", "Retrying"}
    /\ \A u \in ModuleUpstream(t) : OwnState(u) = "Success"

ModuleNoResult ==
    [dates_to_extract |-> << >>, extracted_days |-> [d \in Dates |-> None],
     serialized_extracted_days |-> << >>, mfp_existing_days |-> << >>,
     serialized_days_to_process |-> << >>, days_to_process |-> << >>,
     measurements_records |-> << >>]

\* get_myfitnesspal_day of etl_flow.py: its MaterializedDay has no measurements.
module_get_myfitnesspal_day(username, date, c) ==
    [username |-> username, date |-> date, meals |-> c.meals,
     exercises |-> c.exercises, goals |-> c.goals, notes |-> c.notes,
     water |-> c.water]

\* get_myfitnesspal_measure: the records of one measure for the date range.
get_myfitnesspal_measure(measure, username, from_date, to_date) ==
    LET dates == generate_dates_to_extract(from_date, to_date)
        Has(d) == \E i \in DOMAIN remote[d].measurements :
                      remote[d].measurements[i][1] = measure
        kept == SelectSeq(dates, Has)
    IN [ i \in DOMAIN kept |->
           << username, kept[i], measure, Get(remote[kept[i]].measurements, measure) >> ]

\* A load task of etl_flow.py whose statement is an attribute sql.py does not
\* define: evaluating the argument of executemany raises AttributeError after
\* the connection is opened, and nothing is executed.
MissingStatement(d) == [raised |-> TRUE, db |-> d]

ModuleSucceed(t) ==
    /\ state' = [state EXCEPT ![t] = "Success"]
    /\ run_count' = [run_count EXCEPT ![t] = @ + 1]

InitModule ==
    /\ db = EmptyDb
    /\ db_start = EmptyDb
    /\ remote \in [Dates -> DayContents]
    /\ flow_state = "Idle"
    /\ state = [t \in ModuleTasks |-> "Pending"]
    /\ run_count = [t \in ModuleTasks |-> 0]
    /\ day_state = [d \in Dates |-> "Pending"]
    /\ day_run_count = [d \in Dates |-> 0]
    /\ result = ModuleNoResult
    /\ dberrs = 0
    /\ last_run = NoRun
    /\ call = NoCall

\* flow.run() of the module-level flow.
ModuleStartRun ==
    /\ flow_state # "Running"
    /\ flow_state' = "Running"
    /\ db_start' = db
    /\ state' = [t \in ModuleTasks |-> "Pending"]
    /\ run_count' = [t \in ModuleTasks |-> 0]
    /\ day_state' = [d \in Dates |-> "Pending"]
    /\ day_run_count' = [d \in Dates |-> 0]
    /\ result' = ModuleNoResult
    /\ UNCHANGED << db, remote, dberrs, last_run, call >>

\* A task of the module-level flow that returns value for the result field of
\* its name (none when field is FALSE) and leaves the database as database.
ModuleTaskReturns(t, field, value, database) ==
    /\ ModuleCanRun(t)
    /\ ModuleSucceed(t)
    /\ result' = IF field THEN [result EXCEPT ![t] = value] ELSE result
    /\ db' = database
    /\ UNCHANGED << db_start, remote, flow_state, day_state, day_run_count,
                    dberrs, last_run, call >>

\* create_mfp_db_directory makes the directory of the database file.
CreateMfpDbDirectory == ModuleTaskReturns("database_dir_exists", FALSE, None, db)

ModuleCreateDb ==
    ModuleTaskReturns("database_exists", FALSE, None, create_mfp_database(db))

ModuleGenerateDates ==
    ModuleTaskReturns("dates_to_extract", TRUE,
                      generate_dates_to_extract(1, MaxDate), db)

\* One execution of the mapped child of get_myfitnesspal_day for date d.
ModuleGetDay(d, ok) ==
    /\ ModuleCanRun("extracted_days")
    /\ day_state[d] \in {"Pending", "Retrying"}
    /\ ~ok => dberrs < MaxRemoteFailures
    /\ IF ok
       THEN /\ day_state' = [day_state EXCEPT ![d] = "Success"]
            /\ day_run_count' = [day_run_count EXCEPT ![d] = 0]
            /\ result' = [result EXCEPT !.extracted_days[d] =
                            module_get_myfitnesspal_day(USER, d, remote[d])]
            /\ UNCHANGED dberrs
       ELSE /\ day_state' = [day_state EXCEPT ![d] =
                               ModuleAfterFailure("extracted_days", day_run_count[d] + 1)]
            /\ day_run_count' = [day_run_count EXCEPT ![d] = @ + 1]
            /\ dberrs' = dberrs + 1
            /\ UNCHANGED result
    /\ UNCHANGED << db, db_start, remote, flow_state, state, run_count, last_run,
                    call >>

\* One execution of get_myfitnesspal_measure for the measure of the run.
GetMeasure(ok) ==
    /\ ModuleCanRun("measurements_records")
    /\ ~ok => dberrs < MaxRemoteFailures
    /\ IF ok
       THEN /\ state' = [state EXCEPT !["measurements_records"] = "Success"]
            /\ result' = [result EXCEPT !.measurements_records =
                            get_myfitnesspal_measure(measures[1], USER, 1, MaxDate)]
            /\ UNCHANGED dberrs
       ELSE /\ state' = [state EXCEPT !["measurements_records"] =
                           ModuleAfterFailure("measurements_records",
                                              run_count["measurements_records"] + 1)]
            /\ dberrs' = dberrs + 1
            /\ UNCHANGED result
    /\ run_count' = [run_count EXCEPT !["measurements_records"] = @ + 1]
    /\ UNCHANGED << db, db_start, remote, flow_state, day_state, day_run_count,
                    last_run, call >>

ModuleSerializeDays ==
    ModuleTaskReturns("serialized_extracted_days", TRUE,
                      serialize_myfitnesspal_days(ExtractedDays), db)

ModuleSelectRawDays ==
    ModuleTaskReturns("mfp_existing_days", TRUE,
                      mfp_select_raw_days(db, USER, result.dates_to_extract), db)

ModuleFilterRecords ==
    ModuleTaskReturns("serialized_days_to_process", TRUE,
                      filter_new_or_changed_records(result.serialized_extracted_days,
                                                    result.mfp_existing_days), db)

ModuleDeserializeRecords ==
    ModuleTaskReturns("days_to_process", TRUE,
                      deserialize_records_to_process(result.serialized_days_to_process),
                      db)

\* One execution of a load task of the module-level flow that left outcome.
ModuleLoad(t, outcome) ==
    /\ ModuleCanRun(t)
    /\ db' = outcome.db
    /\ state' = [state EXCEPT ![t] =
                   IF outcome.raised THEN ModuleAfterFailure(t, run_count[t] + 1)
                   ELSE "Success"]
    /\ run_count' = [run_count EXCEPT ![t] = @ + 1]
    /\ UNCHANGED << db_start, remote, flow_state, day_state, day_run_count, result,
                    dberrs, last_run, call >>

\* mfp_insert_raw_days: PRAGMA foreign_keys = YES, executemany of
\* sql.insert_or_replace_rawdaydata_record, commit.
mfp_insert_raw_days ==
    ModuleLoad("raw_days_load_state",
               SQLiteExecuteMany_run(db, insert_or_replace_rawdaydata_record,
                                     result.serialized_days_to_process, TRUE, FALSE))

\* mfp_insert_notes ... mfp_insert_measurements: each names a statement that sql.py
\* does not define.
ModuleChildLoad(t) == ModuleLoad(t, MissingStatement(db))

ModuleFinishRun ==
    /\ flow_state = "Running"
    /\ \A t \in ModuleTasks :
          ModuleTaskState(t) \in {"Success", "Failed", "TriggerFailed"}
    /\ flow_state' = IF \A t \in ModuleTerminalTasks : ModuleTaskState(t) = "Success"
                     THEN "Success" ELSE "Failed"
    /\ UNCHANGED << db, db_start, remote, state, run_count, day_state,
                    day_run_count, result, dberrs, last_run, call >>

NextModule ==
    \/ ModuleStartRun
    \/ CreateMfpDbDirectory
    \/ ModuleCreateDb
    \/ ModuleGenerateDates
    \/ \E d \in Dates, ok \in BOOLEAN : ModuleGetDay(d, ok)
    \/ \E ok \in BOOLEAN : GetMeasure(ok)
    \/ ModuleSerializeDays
    \/ ModuleSelectRawDays
    \/ ModuleFilterRecords
    \/ mfp_insert_raw_days
    \/ ModuleDeserializeRecords
    \/ \E t \in ModuleChildLoads : ModuleChildLoad(t)
    \/ ModuleFinishRun

SpecEtlModule == InitModule /\ [][NextModule]_vars

(***************************************************************************)
(* Properties of the flow built by get_etl_flow.                           *)
(***************************************************************************)
\* The payload stored in database d for (username, date); None when no row exists.
StoredPayload(d, username, date) ==
    LET rs == { r \in d.RawDayData : r[1] = username /\ r[2] = isoformat(date) }
    IN IF rs = {} THEN None ELSE (CHOOSE r \in rs : TRUE)[3]

\* The bag of the elements of sequence s.
BagOfSeq(s) == [ x \in Range(s) |-> Cardinality({ i \in DOMAIN s : s[i] = x }) ]

\* The change detector has run in the current flow run.
Filtered == state["serialized_days_to_process"] = "Success"

\* The extracted record of date d is in the upsert set of the run.
InUpsertSet(d) ==
    \E i \in DOMAIN result.serialized_days_to_process :
        result.serialized_days_to_process[i][2] = d

\* C1: filter_new_or_changed_records returns exactly the extracted tuples, in
\* their order, whose payload is not equal to the payload stored for the same
\* (user, date) when the run read the database (None when no row exists): every
\* key absent from storage is returned, an extracted tuple equal to its stored
\* tuple is not, and both inputs are afterwards what their producers returned.
C1_FilterReturnsNewOrChanged ==
    Filtered =>
        LET extracted == result.serialized_extracted_days
            Differs(t) == StoredPayload(db_start, t[1], t[2]) # t[3]
        IN /\ result.serialized_days_to_process = SelectSeq(extracted, Differs)
           /\ \A i \in DOMAIN extracted :
                  StoredPayload(db_start, extracted[i][1], extracted[i][2]) = None
                      => InUpsertSet(extracted[i][2])
           /\ extracted = serialize_myfitnesspal_days(ExtractedDays)
           /\ result.mfp_existing_days =
                  [ i \in DOMAIN result.dates_to_extract |->
                      << USER, result.dates_to_extract[i],
                         StoredPayload(db_start, USER, result.dates_to_extract[i]) >> ]

\* The detector has run on one record stored with another payload (returned) and
\* one record equal to its stored tuple (not returned).
C1_Witness ==
    /\ Filtered
    /\ \E d \in Dates :
          /\ StoredPayload(db_start, USER, d) \notin
                 {None, jsonpickle_encode(result.extracted_days[d])}
          /\ InUpsertSet(d)
    /\ \E d \in Dates :
          /\ StoredPayload(db_start, USER, d) = jsonpickle_encode(result.extracted_days[d])
          /\ ~InUpsertSet(d)

\* The current run has extracted, for every date, the payload that the run before
\* it extracted and stored.
SameAsStoredLastRun ==
    /\ flow_state = "Running"
    /\ last_run.stored
    /\ state["serialized_extracted_days"] = "Success"
    /\ result.serialized_extracted_days = last_run.extracted

\* C2: when a flow run extracts for every date the payload that the run before it
\* extracted and stored, its upsert set is empty, every load it executes is
\* called with an empty batch, and the database stays as the first run left it:
\* no table gains, loses or duplicates a row.
C2_SecondRunChangesNothing ==
    SameAsStoredLastRun =>
        /\ Filtered => result.serialized_days_to_process = << >>
        /\ \A t \in LoadTasks : run_count[t] > 0 => Batch(t) = << >>
        /\ db = db_start

\* The second run has executed every load, and rows are stored.
C2_Witness ==
    /\ SameAsStoredLastRun
    /\ \A t \in LoadTasks : state[t] = "Success" /\ Batch(t) = << >>
    /\ \A d \in Dates : StoredPayload(db, USER, d) # None
    /\ db.MealEntries # EmptyBag

\* The rows of table tbl of database d for (USER, date): a set, or a bag for a
\* table with an AUTOINCREMENT id.
KeyRows(d, tbl, date) ==
    LET OfDate(r) == Key2(r) = << USER, isoformat(date) >>
    IN IF tbl \in IdTables
       THEN [ r \in { x \in DOMAIN d[tbl] : OfDate(x) } |-> d[tbl][r] ]
       ELSE { r \in d[tbl] : OfDate(r) }

\* The rows load t stores for one day: those its decomposer yields from the day.
Expected(t, day) ==
    LET rows == Decompose(t, << day >>)
        bound == [ i \in DOMAIN rows |-> Bind(rows[i]) ]
    IN IF Query(t).table \in IdTables THEN BagOfSeq(bound) ELSE Range(bound)

\* Every child load of the run has succeeded.
ChildrenLoaded == \A t \in ChildLoads : state[t] = "Success"

\* C3: after a run whose loads all succeeded, for every date in the upsert set
\* (so for every stored date re-extracted with a different payload) the stored
\* snapshot is the new payload and the rows of each child table for that date are
\* exactly the rows decomposed from the new payload, each as many times as it
\* was decomposed: no child of the old payload remains, in MealEntries either;
\* the rows of every other date are those the run started with.
C3_ReplaceLeavesOnlyNewChildren ==
    ChildrenLoaded =>
        \A d \in Dates :
            IF InUpsertSet(d)
            THEN /\ StoredPayload(db, USER, d) = jsonpickle_encode(result.extracted_days[d])
                 /\ \A t \in ChildLoads :
                        KeyRows(db, Query(t).table, d) = Expected(t, result.extracted_days[d])
            ELSE \A tbl \in TableNames : KeyRows(db, tbl, d) = KeyRows(db_start, tbl, d)

\* A run has replaced a stored day that had meal entries and exercises by another
\* payload and has left another stored day alone.
C3_Witness ==
    /\ ChildrenLoaded
    /\ \E d \in Dates :
          /\ InUpsertSet(d)
          /\ StoredPayload(db_start, USER, d) # None
          /\ KeyRows(db_start, "MealEntries", d) # EmptyBag
          /\ KeyRows(db_start, "StrengthExercises", d) # EmptyBag
    /\ \E d \in Dates :
          /\ ~InUpsertSet(d)
          /\ KeyRows(db_start, "Water", d) # {}

\* C4: in every reachable state of the database, also after runs in which a
\* batch failed, every row of every child table has the (user, date) of a stored
\* RawDayData row and every MealEntries row has the (user, date, meal_name) of a
\* stored Meals row.
C4_NoOrphanChild ==
    /\ \A tbl \in RawDayChildren \cup {"MealEntries"} :
          \A r \in Rows(db, tbl) : \E p \in db.RawDayData : Key2(p) = Key2(r)
    /\ \A r \in Rows(db, "MealEntries") : \E m \in db.Meals : Key3(m) = Key3(r)

\* After a failed batch, a run has replaced a stored day that had meal entries, and
\* meal entries are stored.
C4_Witness ==
    /\ dberrs > 0
    /\ state["rawdays_load_state"] = "Success"
    /\ \E d \in Dates :
          /\ InUpsertSet(d)
          /\ KeyRows(db_start, "MealEntries", d) # EmptyBag
    /\ db.MealEntries # EmptyBag

\* C5: in every order the task graph permits, a child load is executed only when
\* the RawDayData load of the run has committed, the MealEntries load only when
\* the Meals load has committed, and when the RawDayData load failed no child
\* load is executed in the run.
C5_ParentLoadsFirst ==
    /\ \A t \in ChildLoads :
          run_count[t] > 0 => state["rawdays_load_state"] = "Success"
    /\ run_count["mealentries_load_state"] > 0 => state["meals_load_state"] = "Success"
    /\ state["rawdays_load_state"] = "Failed" => \A t \in ChildLoads : run_count[t] = 0

\* Every child load has been executed, the MealEntries load with rows to insert.
C5_Witness ==
    /\ \A t \in ChildLoads : run_count[t] > 0
    /\ Batch("rawdays_load_state") # << >>
    /\ Batch("mealentries_load_state") # << >>

\* C8: the extraction of one date is executed at most max_retries + 1 times (the
\* first attempt and at most max_retries retries); a date whose attempts all
\* failed ends Failed after exactly that many, and then no load of the run is
\* executed, every table keeps the rows the run started with, and the flow run
\* does not end in Success.
C8_BoundedExtractionFailsVisibly ==
    \A d \in Dates :
        /\ day_run_count[d] <= max_retries + 1
        /\ day_state[d] = "Retrying" => day_run_count[d] \in 1..max_retries
        /\ day_state[d] = "Failed" =>
              /\ day_run_count[d] = max_retries + 1
              /\ \A t \in LoadTasks : run_count[t] = 0 /\ TaskState(t) = "TriggerFailed"
              /\ \A tbl \in TableNames : db[tbl] = db_start[tbl]
              /\ flow_state \in {"Running", "Failed"}

\* A run has ended after the extraction of a date failed for the last time, while
\* the other date was extracted and the database held rows.
C8_Witness ==
    /\ flow_state = "Failed"
    /\ \E d \in Dates : day_state[d] = "Failed"
    /\ \E d \in Dates : day_state[d] = "Success"
    /\ db.RawDayData # {}

\* The tasks of the flow other than the extraction.
CoreTasks == Tasks \ {"extracted_days"}

\* C9: no task other than the extraction is ever waiting for a retry or executed
\* more than once in a run: a task that failed was executed exactly once, and
\* Failed is its state for the rest of the run.
C9_CoreTasksNotRetried ==
    \A t \in CoreTasks :
        /\ state[t] # "Retrying"
        /\ run_count[t] <= 1
        /\ state[t] = "Failed" => run_count[t] = 1

\* A run has ended in which a load batch failed after the RawDayData load committed.
C9_Witness ==
    /\ flow_state = "Failed"
    /\ state["rawdays_load_state"] = "Success"
    /\ \E t \in ChildLoads : state[t] = "Failed" /\ Batch(t) # << >>

\* C10: a date without a stored RawDayData row when a run starts (no earlier run
\* committed it) is in the upsert set the change detector of that run returns;
\* and once the RawDayData load of a run has succeeded, every date of the range
\* has a stored snapshot equal to the payload the run extracted.
C10_MissingDateIsReloaded ==
    /\ Filtered =>
          \A d \in Dates : StoredPayload(db_start, USER, d) = None => InUpsertSet(d)
    /\ state["rawdays_load_state"] = "Success" =>
          \A d \in Dates :
              StoredPayload(db, USER, d) = jsonpickle_encode(result.extracted_days[d])

\* An earlier run created the tables and ended without a RawDayData row committed;
\* the current run has found every date missing and has stored them.
C10_Witness ==
    /\ db_start.tables # {}
    /\ db_start.RawDayData = {}
    /\ Filtered
    /\ \A d \in Dates : InUpsertSet(d)
    /\ state["rawdays_load_state"] = "Success"
    /\ \A d \in Dates : StoredPayload(db, USER, d) # None

(***************************************************************************)
(* Properties of SQLiteExecuteMany.run.                                    *)
(***************************************************************************)
\* The tuples of the last call as they were bound.
CallRows == [ i \in DOMAIN call.data |-> Bind(call.data[i]) ]

\* Tuple i of the last call violates a constraint when it is executed after the
\* tuples before it: a NOT NULL column is NULL, its primary key is that of a row stored before the call or of an earlier tuple
\* (plain INSERT), or foreign keys are enforced and its parent row is not stored.
Violates(i) ==
    LET t == call.query.table
        r == CallRows[i]
    IN \/ \E c \in NotNullCols(t) : r[c] = Null
       \/ /\ PkLen(t) > 0
          /\ ~call.query.or_replace
          /\ \/ \E x \in call.before[t] : PkOf(t, x) = PkOf(t, r)
             \/ \E j \in 1..(i - 1) : PkOf(t, CallRows[j]) = PkOf(t, r)
       \/ call.enforce_fk /\ ~ParentExists(call.before, t, r)

\* Tuple i of the last call is replaced by a later tuple of the same batch.
ReplacedLater(i) ==
    /\ call.query.or_replace
    /\ \E j \in (i + 1)..Len(call.data) :
          PkOf(call.query.table, CallRows[j]) = PkOf(call.query.table, CallRows[i])

\* C7: a call of SQLiteExecuteMany.run raises exactly when a tuple of its batch
\* violates a constraint (or the table is missing), and then the database, the table of the batch and all
\* other tables, is as it was before the call; when no tuple violates one, every
\* tuple of the batch is stored (under INSERT OR REPLACE, the last tuple of
\* each key): an AUTOINCREMENT table gains one row per tuple and a table with a
\* primary key under plain INSERT gains exactly the tuples of the batch.
C7_BatchAllOrNothing ==
    call.called =>
        LET t == call.query.table
        IN /\ call.raised <=> \/ t \notin call.before.tables
                              \/ \E i \in DOMAIN call.data : Violates(i)
           /\ call.raised => db = call.before
           /\ ~call.raised =>
                 /\ \A i \in DOMAIN call.data :
                        ~ReplacedLater(i) => CallRows[i] \in Rows(db, t)
                 /\ t \in IdTables => db[t] = call.before[t] (+) BagOfSeq(CallRows)
                 /\ (t \notin IdTables /\ ~call.query.or_replace) =>
                        /\ db[t] = call.before[t] \cup Range(CallRows)
                        /\ Cardinality(db[t]) =
                              Cardinality(call.before[t]) + Len(call.data)

\* A call has raised on the second tuple of a batch whose first tuple alone was
\* accepted, on a database that held rows of that table.
C7_Witness ==
    /\ call.called
    /\ call.raised
    /\ call.query.table \in call.before.tables
    /\ Len(call.data) = 2
    /\ ~Violates(1)
    /\ Violates(2)
    /\ Rows(call.before, call.query.table) # {}

(***************************************************************************)
(* Properties of the module-level flow of etl_flow.py.                     *)
(***************************************************************************)
\* C6: in the module-level flow, a load of a child relation (the Measurements load
\* included) is executed only when the RawDayData write of the run has
\* committed.  The flow does not satisfy it: measurements_load_state has
\* database_exists and measurements_records upstream, not raw_days_load_state.
C6_ModuleRawDaysBeforeChildLoads ==
    \A t \in ModuleChildLoads :
        run_count[t] > 0 => state["raw_days_load_state"] = "Success"

(***************************************************************************)
(* The task object: foreign keys and the checks of the arguments.          *)
(***************************************************************************)
TaskCalled == call.called /\ "kwargs" \in DOMAIN call

\* The value run works with: the keyword argument when passed, else the attribute.
Given(a) == IF call.kwargs[a] # NotPassed THEN call.kwargs[a] ELSE call.task[a]

\* The keys of the batch whose RawDayData row the DELETE found.
DeletedKeys ==
    { k \in { Key2(Bind(v)) : v \in Range(Given("data").list) } :
        \E x \in call.before.RawDayData : Key2(x) = k }

\* The child rows of the deleted keys in table t before the call.
ChildrenOfDeleted(t) ==
    LET goneMeals == { Key3(m) : m \in { x \in call.before.Meals :
                                            Key2(x) \in DeletedKeys } }
    IN { r \in Rows(call.before, t) :
           IF t = "MealEntries" THEN Key3(r) \in goneMeals
           ELSE Key2(r) \in DeletedKeys }

DeleteCompleted ==
    /\ TaskCalled
    /\ ~call.raised
    /\ Given("query") = delete_rawdaydata

\* C11: a completed DELETE of RawDayData rows removes the rows of the keys of its
\* batch; when enforce_fk is True (the value passed to run, or the attribute when
\* none was passed) every child table loses exactly the child rows of the deleted
\* keys, and otherwise every child table is as it was.
C11_CascadeOnlyWhenEnforced ==
    DeleteCompleted =>
        /\ db.RawDayData = { x \in call.before.RawDayData : Key2(x) \notin DeletedKeys }
        /\ \A t \in TableNames \ {"RawDayData"} :
              IF Given("enforce_fk") = PyBool(TRUE)
              THEN /\ Rows(db, t) = Rows(call.before, t) \ ChildrenOfDeleted(t)
                   /\ t \in IdTables =>
                         \A r \in Rows(db, t) : db[t][r] = call.before[t][r]
              ELSE db[t] = call.before[t]

\* A task constructed with enforce_fk=False whose run was passed enforce_fk=True
\* deleted one of two stored days: the Water row of that day is gone, the other
\* one is kept.
C11_Witness ==
    /\ DeleteCompleted
    /\ call.task.enforce_fk = PyBool(FALSE)
    /\ call.kwargs.enforce_fk = PyBool(TRUE)
    /\ Cardinality(DeletedKeys) = 1
    /\ Cardinality(call.before.Water) = 2
    /\ Cardinality(db.Water) = 1

\* C12: run raises ValueError and leaves the database as it was when db is
\* missing, else when query is None or empty, else when data is None, each value
\* being the keyword argument when passed and the attribute otherwise, and it
\* does so without having connected; with an empty data list and a statement on
\* an existing table it completes and stores nothing.
C12_ArgumentsChecked ==
    TaskCalled =>
        LET path == Given("db")
            query == Given("query")
            data == Given("data")
            Refused(msg) == /\ call.raised
                            /\ call.error = msg
                            /\ ~call.connected
                            /\ db = call.before
        IN IF path \in {None, PyStr("")}
           THEN Refused("ValueError: A database connection string must be provided")
           ELSE IF query \in {None, PyStr("")}
           THEN Refused("ValueError: A query string must be provided")
           ELSE IF data = None
           THEN Refused("ValueError: A data list must be provided")
           ELSE /\ call.connected
                /\ (data = PyList(<< >>) /\ query.table \in call.before.tables)
                      => ~call.raised /\ db = call.before

\* A run with neither db nor query available: the error is the one about db.
C12_Witness ==
    /\ TaskCalled
    /\ Given("db") = None
    /\ Given("query") \in {None, PyStr("")}
    /\ call.raised
    /\ db = call.before

(***************************************************************************)
(* The adapter and the extract tasks.                                      *)
(***************************************************************************)
Body(day) == Get(day.notes, "body")

NoteTuple(day) == << day.username, day.date, Get(day.notes, "type"), Body(day) >>

\* C13: extract_notes returns one (user, date, type, body) tuple for each day
\* whose note body is not empty and none for a day whose body is empty, in the
\* order of the days.
C13_NotesOnlyWithBody ==
    result.task = "extract_notes" =>
        LET days == result.days
            out == result.returned
            withBody == { i \in DOMAIN days : Body(days[i]) # "" }
        IN /\ Len(out) = Cardinality(withBody)
           /\ \A i \in withBody : \E j \in DOMAIN out : out[j] = NoteTuple(days[i])
           /\ \A j, l \in DOMAIN out : j < l => out[j][2] < out[l][2]

\* The notes of two days were extracted, one with a body and one without: one
\* tuple came out.
C13_Witness ==
    /\ result.task = "extract_notes"
    /\ \E i, j \in DOMAIN result.days :
          Body(result.days[i]) = "" /\ Body(result.days[j]) = "noted"
    /\ Len(result.returned) = 1

\* The rows of out that carry the user and the date of day.
OfDay(out, day) ==
    { j \in DOMAIN out : out[j][1] = day.username /\ out[j][2] = day.date }

NonNullMeals(day) == { l \in DOMAIN day.meals : day.meals[l] # None }

\* The entries of the non-null meals of a day.
EntriesOf(day) ==
    Concat([ l \in DOMAIN day.meals |->
               IF day.meals[l] = None THEN << >> ELSE day.meals[l].entries ])

MealsWithEntries(day) ==
    { l \in NonNullMeals(day) : Len(day.meals[l].entries) > 0 }

C15_TupleForEveryRecordedValue ==
    result.task = "extract_measures" =>
        LET out == result.returned
        IN /\ \A j \in DOMAIN out : out[j][4] # Null
           /\ \A d \in DOMAIN result.days :
                 /\ Cardinality(OfDay(out, result.days[d]))
                       = Len(result.days[d].measurements)
                 /\ \A m \in Range(result.measures) :
                       LET v == Get(remote[d].measurements, m)
                       IN v # Null <=> \E j \in DOMAIN out : out[j] = << USER, d, m, v >>

\* C16: a requested measure the remote source has no data for contributes no
\* entry and does not stop the collection: the day's measurements hold only
\* requested measures that were found, with the value found, and every requested
\* measure found with a value other than 0 is among them.
C16_MissingMeasureIsSkipped ==
    result.task = "get_myfitnesspal_day" =>
        \A d \in DOMAIN result.days :
            LET held == remote[d].measurements
                got == result.days[d].measurements
                Found(m) == \E i \in DOMAIN held : held[i][1] = m
            IN /\ \A i \in DOMAIN got :
                     /\ got[i][1] \in Range(result.measures)
                     /\ Found(got[i][1])
                     /\ got[i][2] = Get(held, got[i][1])
               /\ \A m \in Range(result.measures) :
                     (Found(m) /\ Get(held, m) \notin {Null, "0"})
                         => \E i \in DOMAIN got : got[i] = << m, Get(held, m) >>

\* The first requested measure has no data, the second one has: the day holds
\* the second one.
C16_Witness ==
    /\ result.task = "get_myfitnesspal_day"
    /\ result.measures = << "Neck", "Weight" >>
    /\ \E d \in DOMAIN result.days :
          /\ remote[d].measurements = << <<"Weight", "80">> >>
          /\ result.days[d].measurements = << <<"Weight", "80">> >>

(***************************************************************************)
(* The dates of the extraction period.                                     *)
(***************************************************************************)
Accepted(text) == \E n \in DOMAIN Calendar : text \in {IsoText(n), DottedText(n)}

DayOf(text) == CHOOSE n \in DOMAIN Calendar : text \in {IsoText(n), DottedText(n)}

\* C17: prepare_extraction_start_end_dates returns (today - 6, today - 1) when
\* neither date string is given and the two parsed dates when both are given; it
\* raises ValueError when exactly one is given, and when a given string is in no
\* accepted format.
C17_PreparedDates ==
    result.task = "prepare_extraction_start_end_dates" =>
        LET f == result.from_date_str
            t == result.to_date_str
        IN IF f = None /\ t = None
           THEN /\ result.raised = ""
                /\ result.value = << result.today - 6, result.today - 1 >>
           ELSE IF f = None \/ t = None
           THEN result.raised =
                    "ValueError: Either both from_date and to_date should be provided or neither"
           ELSE IF Accepted(f) /\ Accepted(t)
           THEN /\ result.raised = ""
                /\ result.value = << DayOf(f), DayOf(t) >>
           ELSE result.raised = "ValueError: No available format found to parse"

\* Only to_date was given, and the task raised.
C17_Witness ==
    /\ result.task = "prepare_extraction_start_end_dates"
    /\ result.from_date_str = None
    /\ result.to_date_str = IsoText(1)
    /\ result.raised # ""

\* C18: the list generate_dates_to_extract builds from the default bounds has
\* exactly 5 dates.
C18_DefaultPeriodHasFiveDates ==
    (result.task = "generate_dates_to_extract" /\ result.defaults)
        => Len(result.value) = 5

\* C19: generate_dates_to_extract returns the consecutive dates from from_date to
\* to_date in ascending order with both ends included, and raises ValueError
\* when to_date is before from_date.
C19_ConsecutiveDatesBothEnds ==
    result.task = "generate_dates_to_extract" =>
        IF result.to_date < result.from_date
        THEN result.raised = "ValueError: Parameter to_date cannot be before from_date"
        ELSE /\ result.raised = ""
             /\ Len(result.value) = result.to_date - result.from_date + 1
             /\ result.value[1] = result.from_date
             /\ result.value[Len(result.value)] = result.to_date
             /\ \A i \in 1..(Len(result.value) - 1) :
                   result.value[i + 1] = result.value[i] + 1

\* to_date one day before from_date: the task raised.
C19_Witness ==
    /\ result.task = "generate_dates_to_extract"
    /\ result.to_date + 1 = result.from_date
    /\ result.raised # ""

(***************************************************************************)
(* The creation of the database.                                           *)
(***************************************************************************)
\* create_mfp_database has run in the flow run and no load has run after it.
JustCreated ==
    /\ state["db_exists"] = "Success"
    /\ \A t \in LoadTasks : run_count[t] = 0

\* C20: after create_mfp_database the nine tables exist, and each holds the rows
\* it held before: none on a new database, the stored ones on a database that had
\* the tables already.
C20_CreateDatabaseIdempotent ==
    JustCreated =>
        /\ db.tables = TableNames
        /\ \A t \in TableNames : db[t] = db_start[t]
        /\ db_start.tables = TableNames => db = db_start

\* create_mfp_database has run again on a database that has the tables and
\* stored rows.
C20_Witness ==
    /\ JustCreated
    /\ db_start.tables = TableNames
    /\ db_start.RawDayData # {}
    /\ db_start.Water # {}
    /\ db = db_start

(***************************************************************************)
(* The backups.                                                            *)
(***************************************************************************)
\* C21: after a run of the backup flow in which every task succeeded, the
\* backup directory holds at most 5 backup files.
C21_AtMostFiveBackupsAfterRun ==
    flow_state = "Success" => Cardinality(result.dir) <= KeptBackups

\* The day of a backup file.
DayOfBackup(f) == CHOOSE n \in DOMAIN Calendar : BackupOf(n) = f

\* The selection returned is made of count files of the list, the oldest ones,
\* oldest first.
OldestFirst(files_list, returned, count) ==
    /\ Len(returned) = count
    /\ Range(returned) \subseteq Range(files_list)
    /\ \A i, j \in DOMAIN returned : i < j => DayOfBackup(returned[i]) < DayOfBackup(returned[j])
    /\ \A f \in Range(returned), g \in Range(files_list) \ Range(returned) :
          DayOfBackup(f) < DayOfBackup(g)

\* The most recent file of a list that has files.
MostRecent(files_list) ==
    CHOOSE f \in Range(files_list) :
        \A g \in Range(files_list) : DayOfBackup(g) <= DayOfBackup(f)

\* C22 as stated: select_fifo_backups_to_delete returns [] for a list of at most
\* max_num_backups files and otherwise the len(files_list) - max_num_backups
\* oldest files, oldest first; the files not returned are the max_num_backups
\* most recent ones and the most recent file is never returned.
C22_OldestBeyondMaxAnyMax ==
    result.task = "select_fifo_backups_to_delete" =>
        LET files_list == result.files_list
            max_num_backups == result.max_num_backups
        IN /\ result.raised = ""
           /\ IF Len(files_list) <= max_num_backups
              THEN result.value = << >>
              ELSE /\ OldestFirst(files_list, result.value, Len(files_list) - max_num_backups)
                   /\ Cardinality(Range(files_list) \ Range(result.value)) = max_num_backups
                   /\ MostRecent(files_list) \notin Range(result.value)

\* C22, for max_num_backups of at least 1: [] for a list of at most
\* max_num_backups files and otherwise the len(files_list) - max_num_backups
\* oldest files, oldest first, the files not returned being the max_num_backups
\* most recent ones and the most recent file among them; for max_num_backups of
\* 0 every file of the list is returned, oldest first.
C22_OldestBeyondMax ==
    result.task = "select_fifo_backups_to_delete" =>
        LET files_list == result.files_list
            max_num_backups == result.max_num_backups
        IN /\ result.raised = ""
           /\ IF Len(files_list) <= max_num_backups
              THEN result.value = << >>
              ELSE IF max_num_backups >= 1
              THEN /\ OldestFirst(files_list, result.value, Len(files_list) - max_num_backups)
                   /\ Cardinality(Range(files_list) \ Range(result.value)) = max_num_backups
                   /\ MostRecent(files_list) \notin Range(result.value)
              ELSE OldestFirst(files_list, result.value, Len(files_list))

\* Four files listed with the most recent one first and two of them to keep: two
\* files were returned.
C22_Witness ==
    /\ result.task = "select_fifo_backups_to_delete"
    /\ result.max_num_backups = 2
    /\ Len(result.files_list) = 4
    /\ result.files_list[1] = MostRecent(result.files_list)
    /\ Len(result.value) = 2

(***************************************************************************)
(* The progress report.                                                    *)
(***************************************************************************)
\* The task returned a report that is not empty.
Reported == result.task = "mfp_select_daily_report_data" /\ result.returned # << >>

\* The places, in the rows of the complete series, of the rows with a
\* deficit_actual.
Visible(rows) == { i \in DOMAIN rows : rows[i][5] # None }

LastVisible(rows) == CHOOSE i \in Visible(rows) : \A j \in Visible(rows) : j <= i

\* The running sum at each visible row is the one at the visible row before it
\* plus the deficit_actual of the row.
RunningSumOverSeries(rows) ==
    \A i \in Visible(rows) :
        LET earlier == { j \in Visible(rows) : j < i }
        IN rows[i][6].int =
               rows[i][5].int
               + (IF earlier = {} THEN 0
                  ELSE rows[CHOOSE j \in earlier : \A k \in earlier : k <= j][6].int)

\* The series starts on the starting date, no day has a null deficit_actual and
\* the deficits of the days are actuals.
SeriesOf(actuals) ==
    /\ result.starting_date = IsoText(1)
    /\ Len(result.report_data) = Len(actuals)
    /\ \A i \in DOMAIN actuals : result.report_data[i][5] = PyInt(actuals[i])

\* C23: every row of the visible table is a row of the complete series, with the
\* day_number (its rank in the complete series) and the deficit_accumulated (the
\* running sum over the complete series) it has there; the visible rows are the
\* last rows with a deficit_actual, in order; the current day number reported is
\* the day_number of the last visible row; and the deficits [-200, 150, -50] give
\* the running sums [-200, -50, -100] and the day numbers [1, 2, 3].
C23_FilterAfterNumberingAndSum ==
    /\ Reported =>
          LET rows == result.report_data
              table == dict_get(result.returned, "nutrition_tbl_data", None)
              shown == Cardinality(Visible(rows))
              count == IF shown < result.span_limit THEN shown ELSE result.span_limit
          IN /\ \A i \in DOMAIN rows : rows[i][1] = PyInt(i)
             /\ RunningSumOverSeries(rows)
             /\ Len(table) = count
             /\ \A k \in DOMAIN table :
                   /\ table[k][1].int \in Visible(rows)
                   /\ table[k] = rows[table[k][1].int]
                   /\ Cardinality({ i \in Visible(rows) : i > table[k][1].int })
                          = Len(table) - k
             /\ dict_get(result.returned, "current_day_number", None)
                    = PyInt(LastVisible(rows))
    /\ (result.task = "mfp_select_daily_report_data" /\ SeriesOf(<< -200, 150, -50 >>)) =>
          /\ [ i \in 1..3 |-> result.report_data[i][6] ]
                 = << PyInt(-200), PyInt(-50), PyInt(-100) >>
          /\ [ i \in 1..3 |-> result.report_data[i][1] ]
                 = << PyInt(1), PyInt(2), PyInt(3) >>

\* A report of three days, the second without deficit_actual: the table has the
\* days 1 and 3 and the report is of day 3.
C23_Witness ==
    /\ Reported
    /\ Len(result.report_data) = 3
    /\ Visible(result.report_data) = {1, 3}
    /\ result.span_limit = 7
    /\ Len(dict_get(result.returned, "nutrition_tbl_data", None)) = 2
    /\ dict_get(result.returned, "current_day_number", None) = PyInt(3)

\* The day of the last row with a deficit_actual is the day before today.
LastVisibleIsYesterday(rows, starting_date, today) ==
    /\ Visible(rows) # {}
    /\ DayOf(starting_date) + LastVisible(rows) - 1 = today - 1

\* C24: mfp_select_daily_report_data returns {} when the series has no row with
\* a deficit_actual or the last such row is not dated yesterday, and a report
\* that is not empty when the last such row is dated yesterday.
C24_ReportOnlyWhenLastRowIsYesterday ==
    result.task = "mfp_select_daily_report_data" =>
        (result.returned # << >>
            <=> LastVisibleIsYesterday(result.report_data, result.starting_date,
                                       result.today))

\* The last row with a deficit_actual is dated two days before today, and the
\* report is empty.
C24_Witness ==
    /\ result.task = "mfp_select_daily_report_data"
    /\ Visible(result.report_data) # {}
    /\ DayOf(result.starting_date) + LastVisible(result.report_data) - 1 = result.today - 2
    /\ result.returned = << >>

\* C25: the construction of a ProgressReport from report data whose last row
\* with a deficit_actual is not dated yesterday, or that has no such row,
\* completes without raising and yields an empty nutrition table.
C25_StaleSeriesIsNoReportDue ==
    (/\ result.task = "ProgressReport"
     /\ ~ LastVisibleIsYesterday(result.report_data, result.starting_date, result.today))
        => /\ result.report.raised = ""
           /\ result.report.nutrition_tbl_data = << >>

\* The category and the remaining-to-goal value for a last row and an end goal,
\* on_track being the name of the on-track category.
ChartSummary(end_goal, row, on_track) ==
    IF row[5].int < 0
    THEN [category |-> "warning",
          remaining |-> end_goal - row[6].int + abs(row[5].int)]
    ELSE [category |-> on_track,
          remaining |-> end_goal - row[6].int - row[5].int]

\* C26: the chart summary is that of the last visible row: the chart has one
\* entry, under the date of the row; its category is "warning" and the remaining
\* value end_goal - deficit_accumulated + |deficit_actual| when deficit_actual is
\* negative, and its category is the on-track one ("accent" in
\* calculate_chart_data, "accent0" in ProgressReport) and the remaining value
\* end_goal - deficit_accumulated - deficit_actual otherwise.
C26_ChartSummaryOfLastRow ==
    /\ Reported =>
          LET row == result.report_data[LastVisible(result.report_data)]
              chart == dict_get(result.returned, "chart_data", None)
              summary == ChartSummary(result.end_goal, row, "accent")
          IN /\ Len(chart) = 1
             /\ chart[1][1] = row[2]
             /\ chart[1][2][2] = summary.category
             /\ calculate_chart_data(result.end_goal, row).deficit_remaining
                    = summary.remaining
             /\ chart[1][2][1][3] =
                    IF row[5].int < 0 THEN summary.remaining + row[5].int
                    ELSE summary.remaining
    /\ (result.task = "ProgressReport" /\ result.report.raised = "") =>
          LET row == result.report_data[LastVisible(result.report_data)]
              chart == result.report.chart_data
              summary == ChartSummary(result.end_goal, row, "accent0")
          IN /\ Len(chart) = 1
             /\ chart[1][1] = row[2]
             /\ chart[1][2][2] = summary.category
             /\ result.report.deficit_remaining = summary.remaining
             /\ chart[1][2][1][3] =
                    IF row[5].int < 0 THEN summary.remaining + row[5].int
                    ELSE summary.remaining

\* A report whose last row has the deficit_actual 0: the category is the on-track
\* one.
C26_Witness ==
    /\ Reported
    /\ result.report_data[LastVisible(result.report_data)][5] = PyInt(0)
    /\ dict_get(result.returned, "chart_data", None)[1][2][2] = "accent"

\* C29: the three segments of the bar sum to end_goal and the middle one is
\* |deficit_actual| of the last row, in the warning branch and in the on-track
\* branch, from calculate_chart_data and from ProgressReport.
C29_SegmentsSumToEndGoal ==
    /\ Reported =>
          LET row == result.report_data[LastVisible(result.report_data)]
              segments == dict_get(result.returned, "chart_data", None)[1][2][1]
          IN /\ Len(segments) = 3
             /\ segments[1] + segments[2] + segments[3] = result.end_goal
             /\ segments[2] = abs(row[5].int)
    /\ (result.task = "ProgressReport" /\ result.report.raised = "") =>
          LET row == result.report_data[LastVisible(result.report_data)]
              segments == result.report.chart_data[1][2][1]
          IN /\ Len(segments) = 3
             /\ segments[1] + segments[2] + segments[3] = result.end_goal
             /\ segments[2] = abs(row[5].int)

\* A report whose last row is over target by 200 after a surplus of 150: a
\* warning bar with the middle segment 200.
C29_Witness ==
    /\ Reported
    /\ result.report_data[LastVisible(result.report_data)][5] = PyInt(-200)
    /\ result.report_data[LastVisible(result.report_data)][6] = PyInt(-50)
    /\ dict_get(result.returned, "chart_data", None)[1][2][1][2] = 200

(***************************************************************************)
(* Partial completion across the stages, and the order of the child loads. *)
(***************************************************************************)
\* The payload stored for date d when the run started is the one the run
\* extracted.
StoredAsExtracted(d) ==
    StoredPayload(db_start, USER, d) = jsonpickle_encode(result.extracted_days[d])

\* C27: when the change detector of a run has run and the payload stored for a
\* date is equal to the extracted one, the detector returns no record for the
\* date and every child table keeps, for that date, the rows it had when the run
\* started: child rows of the stored payload that were missing then are missing
\* still, in every later run that extracts the same payload.
C27_MissingChildrenStayMissing ==
    Filtered =>
        \A d \in Dates :
            StoredAsExtracted(d) =>
                /\ ~InUpsertSet(d)
                /\ \A t \in ChildLoads :
                       /\ KeyRows(db, Query(t).table, d) = KeyRows(db_start, Query(t).table, d)
                       /\ KeyRows(db_start, Query(t).table, d)
                              # Expected(t, result.extracted_days[d])
                          => KeyRows(db, Query(t).table, d)
                                 # Expected(t, result.extracted_days[d])

\* After a run in which a child batch failed, a later run has ended in Success
\* with nothing to process, and a stored day lacks child rows of its payload.
C27_Witness ==
    /\ dberrs > 0
    /\ flow_state = "Success"
    /\ Filtered
    /\ result.serialized_days_to_process = << >>
    /\ \E d \in Dates, t \in ChildLoads :
          /\ StoredAsExtracted(d)
          /\ KeyRows(db, Query(t).table, d) # Expected(t, result.extracted_days[d])

\* The loads of the child relations that no edge of the graph orders.
UnorderedLoads == ChildLoads \ {"mealentries_load_state"}

\* C28: no load of Notes, Water, Goals, Meals, CardioExercises, StrengthExercises
\* and Measurements is upstream of another, and the MealEntries load is after
\* the Meals load; whenever one of the child loads has succeeded in a run, in
\* whatever order the loads were executed and whether or not another load
\* failed, its table holds for every date of the upsert set exactly the rows
\* decomposed from the extracted payload and for every other date the rows the
\* run started with; and a load that failed leaves no other of these loads
\* unexecuted.
C28_ChildLoadsIndependent ==
    /\ \A t, u \in UnorderedLoads : t \notin Ancestors[u]
    /\ "meals_load_state" \in Ancestors["mealentries_load_state"]
    /\ \A t \in ChildLoads :
          state[t] = "Success" =>
              \A d \in Dates :
                  KeyRows(db, Query(t).table, d) =
                      IF InUpsertSet(d) THEN Expected(t, result.extracted_days[d])
                      ELSE KeyRows(db_start, Query(t).table, d)
    /\ \A t \in UnorderedLoads :
          state[t] = "Failed" =>
              \A u \in UnorderedLoads \ {t} : TaskState(u) # "TriggerFailed"

\* The Notes load failed on a batch with rows, before or after the other loads:
\* the six other unordered loads and the MealEntries load succeeded and stored
\* rows.
C28_Witness ==
    /\ state["notes_load_state"] = "Failed"
    /\ Batch("notes_load_state") # << >>
    /\ \A u \in ChildLoads \ {"notes_load_state"} : state[u] = "Success"
    /\ db.Water # {}
    /\ db.MealEntries # EmptyBag

(***************************************************************************)
(* The cardio exercises of flows/etl_flow.py.                              *)
(***************************************************************************)
\* One tuple per record of the first exercise collection of each day, in order,
\* with the user and the date of the day.
RECURSIVE CardioTuples(_)
CardioTuples(days) ==
    IF days = << >> THEN << >>
    ELSE LET day == Head(days)
         IN [ j \in DOMAIN day.exercises[1] |->
                << day.username, day.date, day.exercises[1][j].name,
                   Get(day.exercises[1][j].nutrition_information, "minutes"),
                   Get(day.exercises[1][j].nutrition_information, "calories burned") >> ]
            \o CardioTuples(Tail(days))

\* C30: extract_cardio_exercises_from_days returns exactly one tuple per record
\* of each day's first exercise collection, in order, with that day's user and
\* date, and no tuple for a day without cardio record.
C30_OneTuplePerCardioRecord ==
    result.task = "extract_cardio_exercises_from_days" =>
        /\ result.raised = ""
        /\ result.value = CardioTuples(result.days)

=============================================================================
